---- MODULE Spec2Model ----
(***************************************************************************)
(* The "satellite-data" serverless function of safeRo: request parsing and *)
(* dispatch, GEE token acquisition, the FIRMS CSV fetch and parse, and the *)
(* fire-risk classification.  The repository holds three variants of the   *)
(* function: the final one (GEE heuristics + FIRMS), the GEE + Copernicus  *)
(* one and the Copernicus + FIRMS one; the deployed variant is fixed by    *)
(* Init.  Coordinates are in tenths of a degree.                           *)
(***************************************************************************)
EXTENDS Integers, Sequences, FiniteSets, TLC

VARIABLES
  variant,   \* which variant of the function is deployed
  config,    \* the environment secrets (Deno.env)
  req,       \* the request being handled
  pc,        \* the handler's position
  region,    \* the result of REGIONS[regionId] of the request being handled
  gee,       \* the getGEEAnalysis call of the request being handled
  fire,      \* the getFireHotspots call of the request being handled
  cop,       \* the Copernicus calls of the request being handled
  resp,      \* the response returned
  calls,     \* the external endpoints called for the request being handled
  probe      \* input and output of a pure function applied on its own

vars == <<variant, config, req, pc, region, gee, fire, cop, resp, calls, probe>>

----------------------------------------------------------------------------
(* Bounds of the model *)

\* most data rows of a FIRMS body answered to the handler
MaxRows == 2
\* most hotspots of a list handed to calculateFireRisk on its own
MaxHotspots == 10
\* most data lines of a FIRMS body parsed on its own
MaxCsvRows == 2
\* most hotspots of a list handed to the analyze and fires bodies on its own
MaxListed == 22
\* most regions list-regions answers to the client
MaxRegionsListed == 4
\* most rows volunteer_announcements comes to hold
MaxAnnouncementRows == 5
\* most rows alert_subscriptions comes to hold
MaxSubscriptions == 3
\* most hotspots of a list grown one parsed record at a time
MaxGrown == 5

----------------------------------------------------------------------------
(* JavaScript values *)

Undefined == "<undefined>"

\* a JS number that may be NaN
Num(v) == [nan |-> FALSE, v |-> v]
NaN == [nan |-> TRUE, v |-> 0]

\* x < k and x > k for a JS number x and a real k: false when x is NaN
JSLt(x, k) == ~x.nan /\ x.v < k
JSGt(x, k) == ~x.nan /\ x.v > k

\* x || 0
OrZero(x) == IF x.nan \/ x.v = 0 THEN 0 ELSE x.v

\* a piece of text: a decimal number, a decimal number followed by other
\* characters ("12abc"), or any other text (s, possibly empty); "undef" is
\* the value of an array element that does not exist, "jsnum" a JS number
NumCell(v) == [t |-> "num", n |-> v, s |-> ""]
PreCell(v) == [t |-> "pre", n |-> v, s |-> "abc"]
TxtCell(s) == [t |-> "txt", n |-> 0, s |-> s]
UndefCell == [t |-> "undef", n |-> 0, s |-> ""]
JsNumCell(v) == [t |-> "jsnum", n |-> v, s |-> ""]

parseFloat(c) == IF c.t \in {"num", "pre"} THEN Num(c.n) ELSE NaN

\* c || d for a string or undefined c
StrOr(c, d) == IF c.t = "undef" \/ (c.t = "txt" /\ c.s = "") THEN TxtCell(d) ELSE c

\* array[i], i counted from 0
At(values, i) == IF i >= 0 /\ i < Len(values) THEN values[i + 1] ELSE UndefCell

\* array.indexOf(name)
indexOf(headers, name) ==
  IF \E i \in 1..Len(headers) : headers[i] = TxtCell(name)
  THEN (CHOOSE i \in 1..Len(headers) :
          /\ headers[i] = TxtCell(name)
          /\ \A j \in 1..(i - 1) : headers[j] # TxtCell(name)) - 1
  ELSE -1

----------------------------------------------------------------------------
(* The region table *)

REGIONS ==
  [fagaras   |-> [bbox |-> <<245, 455, 255, 460>>, name |-> "Fagaras"],
   iasi      |-> [bbox |-> <<275, 470, 278, 473>>, name |-> "Iasi"],
   timisoara |-> [bbox |-> <<211, 456, 214, 459>>, name |-> "Timisoara"],
   craiova   |-> [bbox |-> <<237, 442, 240, 445>>, name |-> "Craiova"],
   constanta |-> [bbox |-> <<285, 441, 288, 444>>, name |-> "Constanta"],
   baia_mare |-> [bbox |-> <<234, 475, 237, 478>>, name |-> "Baia Mare"],
   bucuresti |-> [bbox |-> <<259, 443, 262, 446>>, name |-> "Bucuresti"],
   cluj      |-> [bbox |-> <<235, 467, 238, 470>>, name |-> "Cluj"]]

\* the properties every object literal inherits from Object.prototype
ObjectPrototypeKeys == {"constructor", "toString", "valueOf", "hasOwnProperty", "__proto__"}

NoBbox == <<>>

\* as LookupRegion, every known id answered with the first region
LookupRegionFirst(regionId) ==
  IF regionId \in DOMAIN REGIONS
  THEN [kind |-> "region", bbox |-> REGIONS["fagaras"].bbox]
  ELSE [kind |-> "undefined", bbox |-> NoBbox]

\* REGIONS[regionId]: the region, undefined, or an inherited property (a
\* truthy value that has no bbox)
LookupRegion(regionId) ==
  IF regionId \in DOMAIN REGIONS
  THEN [kind |-> "region", bbox |-> REGIONS[regionId].bbox]
  ELSE IF regionId \in ObjectPrototypeKeys
       THEN [kind |-> "inherited", bbox |-> NoBbox]
       ELSE [kind |-> "undefined", bbox |-> NoBbox]

NoRegion == [kind |-> "none", bbox |-> NoBbox]

\* the keys of REGIONS in the order Object.entries gives them
RegionOrder ==
  <<"fagaras", "iasi", "timisoara", "craiova", "constanta", "baia_mare",
    "bucuresti", "cluj">>

\* the body of list-regions
ListRegions ==
  [i \in 1..Len(RegionOrder) |->
     [id |-> RegionOrder[i], name |-> REGIONS[RegionOrder[i]].name,
      bbox |-> REGIONS[RegionOrder[i]].bbox]]

----------------------------------------------------------------------------
(* FIRMS CSV parsing: getFireHotspots after the fetch *)

\* a body is a sequence of lines, a line a sequence of cells; the empty
\* line is <<>>

\* csvText.trim(): leading and trailing empty lines go
RECURSIVE DropLeadingEmpty(_)
DropLeadingEmpty(b) ==
  IF b = <<>> THEN <<>>
  ELSE IF Head(b) = <<>> THEN DropLeadingEmpty(Tail(b)) ELSE b

RECURSIVE DropTrailingEmpty(_)
DropTrailingEmpty(b) ==
  IF b = <<>> THEN <<>>
  ELSE IF b[Len(b)] = <<>> THEN DropTrailingEmpty(SubSeq(b, 1, Len(b) - 1)) ELSE b

\* as SplitLines, without the trim
SplitLinesNoTrim(b) == IF b = <<>> THEN << <<>> >> ELSE b

\* csvText.trim().split('\n'): the empty text splits into one empty line
SplitLines(b) ==
  LET t == DropTrailingEmpty(DropLeadingEmpty(b))
  IN IF t = <<>> THEN << <<>> >> ELSE t

\* line.split(','): the empty line splits into one empty cell
SplitComma(line) == IF line = <<>> THEN << TxtCell("") >> ELSE line

\* the bounding-box test of the country-wide query
OutsideExpandedBbox(lat, lon, bbox) ==
  \/ JSLt(lon, bbox[1] - 5)
  \/ JSGt(lon, bbox[3] + 5)
  \/ JSLt(lat, bbox[2] - 5)
  \/ JSGt(lat, bbox[4] + 5)

\* the column indices read from the header line
HeaderIndices(headers) ==
  [lat    |-> indexOf(headers, "latitude"),
   lon    |-> indexOf(headers, "longitude"),
   bright |-> IF indexOf(headers, "bright_ti4") # -1
              THEN indexOf(headers, "bright_ti4")
              ELSE indexOf(headers, "brightness"),
   conf   |-> indexOf(headers, "confidence"),
   date   |-> indexOf(headers, "acq_date"),
   time   |-> indexOf(headers, "acq_time"),
   sat    |-> indexOf(headers, "satellite"),
   frp    |-> indexOf(headers, "frp")]

\* the hotspot record pushed for one data line
HotspotOfRow(values, idx) ==
  [latitude   |-> parseFloat(At(values, idx.lat)),
   longitude  |-> parseFloat(At(values, idx.lon)),
   brightness |-> Num(OrZero(parseFloat(At(values, idx.bright)))),
   confidence |-> StrOr(At(values, idx.conf), "unknown"),
   acq_date   |-> StrOr(At(values, idx.date), ""),
   acq_time   |-> StrOr(At(values, idx.time), ""),
   satellite  |-> StrOr(At(values, idx.sat), "VIIRS"),
   frp        |-> Num(OrZero(parseFloat(At(values, idx.frp))))]

\* the loop over the data lines, from line i (counted from 1 = header)
RECURSIVE ParseRows(_, _, _, _, _)
ParseRows(lines, i, idx, bbox, hasKey) ==
  IF i > Len(lines) THEN <<>>
  ELSE LET values == SplitComma(lines[i])
           h == HotspotOfRow(values, idx)
           rest == ParseRows(lines, i + 1, idx, bbox, hasKey)
       IN IF ~hasKey /\ OutsideExpandedBbox(h.latitude, h.longitude, bbox)
          THEN rest
          ELSE <<h>> \o rest

\* the hotspots of a 2xx FIRMS body
ParseFirmsCsv(body, bbox, hasKey) ==
  LET lines == SplitLines(body)
  IN IF Len(lines) < 2 THEN <<>>
     ELSE ParseRows(lines, 2, HeaderIndices(SplitComma(lines[1])), bbox, hasKey)

----------------------------------------------------------------------------
(* Fire-risk classification: calculateFireRisk *)

\* the filter of the high-confidence hotspots
IsHighConfidence(h) ==
  \/ h.confidence = TxtCell("high")
  \/ h.confidence = TxtCell("h")
  \/ (h.confidence.t = "jsnum" /\ h.confidence.n >= 80)

RECURSIVE CountHighConfidence(_)
CountHighConfidence(hotspots) ==
  IF hotspots = <<>> THEN 0
  ELSE (IF IsHighConfidence(Head(hotspots)) THEN 1 ELSE 0)
       + CountHighConfidence(Tail(hotspots))

\* hotspots.reduce((sum, h) => sum + (h.frp || 0), 0)
RECURSIVE SumFRP(_)
SumFRP(hotspots) ==
  IF hotspots = <<>> THEN 0
  ELSE OrZero(Head(hotspots).frp) + SumFRP(Tail(hotspots))

\* Math.max(...hotspots.map(h => h.brightness)) of a non-empty list
RECURSIVE MaxBrightness(_)
MaxBrightness(hotspots) ==
  LET b == Head(hotspots).brightness
  IN IF Len(hotspots) = 1 THEN b
     ELSE LET m == MaxBrightness(Tail(hotspots))
          IN IF b.nan \/ m.nan THEN NaN
             ELSE IF b.v >= m.v THEN b ELSE m

\* the if-chain of the risk label, for a non-empty list
FireRiskLabelLoose(n, high, frp) ==
  IF n >= 10 \/ high >= 5 \/ frp >= 100 THEN "critical"
  ELSE IF n >= 5 \/ high >= 2 \/ frp >= 50 THEN "high"
  ELSE IF n >= 1 THEN "medium"
  ELSE "low"

FireRiskLabel(n, high, frp) ==
  IF n >= 10 \/ high >= 5 \/ frp > 100 THEN "critical"
  ELSE IF n >= 5 \/ high >= 2 \/ frp > 50 THEN "high"
  ELSE IF n >= 1 THEN "medium"
  ELSE "low"

calculateFireRisk(hotspots) ==
  IF Len(hotspots) = 0
  THEN [fireRisk |-> "low", activeHotspots |-> 0, highConfidenceCount |-> 0,
        maxBrightness |-> Num(0), totalFRP |-> 0]
  ELSE [fireRisk |-> FireRiskLabel(Len(hotspots), CountHighConfidence(hotspots),
                                   SumFRP(hotspots)),
        activeHotspots |-> Len(hotspots),
        highConfidenceCount |-> CountHighConfidence(hotspots),
        maxBrightness |-> MaxBrightness(hotspots),
        totalFRP |-> SumFRP(hotspots)]

----------------------------------------------------------------------------
(* Deployment and requests *)

Variants == {"final", "gee_copernicus", "copernicus"}

HasGEE(v) == v \in {"final", "gee_copernicus"}
HasCopernicus(v) == v \in {"gee_copernicus", "copernicus"}

\* GEE_SERVICE_ACCOUNT_KEY: not set, not JSON, JSON whose private_key is
\* missing or no PEM, or a usable key
GeeKeys == {"missing", "badjson", "badpem", "ok"}

\* a secret a variant never reads is left unset
Configs(v) ==
  {c \in [geeKey : GeeKeys, firmsKey : BOOLEAN, copCreds : BOOLEAN] :
     /\ ~HasGEE(v) => c.geeKey = "missing"
     /\ ~HasCopernicus(v) => c.copCreds = FALSE}

\* the daysBack a request carries: nothing, a JSON number, the text of a
\* number, or other text
DaysUndef == [ty |-> "undef", n |-> 0]
DaysNum(n) == [ty |-> "num", n |-> n]
DaysNumStr(n) == [ty |-> "numstr", n |-> n]
DaysJunk == [ty |-> "junk", n |-> 0]
DaysNaN == [ty |-> "nan", n |-> 0]

DaysValues == {-1, 0, 5, 25, 200000000}

QueryDays == {DaysUndef, DaysJunk} \cup {DaysNumStr(n) : n \in DaysValues}
BodyDays == {DaysUndef, DaysJunk, DaysNumStr(5)} \cup {DaysNum(n) : n \in DaysValues}

ActionValues == {Undefined, "list-regions", "analyze", "gee", "fires", "search", "bogus"}
RegionIdValues == {Undefined, "", "cluj", "fagaras", "atlantis", "constructor"}

\* a GET carries its parameters in the query, any other method in the body,
\* which may be no JSON at all or the JSON null
Requests ==
  [method : {"GET"}, body : {"none"}, action : ActionValues,
   regionId : RegionIdValues, daysBack : QueryDays]
  \cup
  [method : {"POST"}, body : {"object"}, action : ActionValues,
   regionId : RegionIdValues, daysBack : BodyDays]
  \cup
  [method : {"POST"}, body : {"invalid", "null"}, action : {Undefined},
   regionId : {Undefined}, daysBack : {DaysUndef}]
  \cup
  [method : {"OPTIONS"}, body : {"none"}, action : {Undefined, "analyze"},
   regionId : {Undefined}, daysBack : {DaysUndef}]

NoRequest ==
  [method |-> "none", body |-> "none", action |-> Undefined,
   regionId |-> Undefined, daysBack |-> DaysUndef]

\* x || undefined, for a query parameter
OrUndefined(x) == IF x = "" THEN Undefined ELSE x

\* !x for a string or undefined
IsFalsyStrLoose(x) == x = Undefined
IsFalsyStr(x) == x \in {Undefined, ""}

\* parseInt(text)
parseInt(d) == IF d.ty = "numstr" THEN DaysNum(d.n) ELSE DaysNaN

\* !d for a daysBack value
IsFalsyDays(d) == d.ty \in {"undef", "nan"} \/ (d.ty = "num" /\ d.n = 0)

\* d || k
DaysOr(d, k) == IF IsFalsyDays(d) THEN DaysNum(k) ELSE d

\* the number a value converts to in arithmetic
IsNumeric(d) == d.ty \in {"num", "numstr"}

\* Math.min(d, k)
MathMin(d, k) ==
  IF IsNumeric(d) THEN DaysNum(IF d.n < k THEN d.n ELSE k) ELSE DaysNaN

\* whether the start date, today minus d days, is a date toISOString accepts
\* (a time value within 10^8 days of the epoch)
DateIsValid(d) == IsNumeric(d) /\ d.n <= 100000000 /\ d.n >= -100000000

\* the parameters the handler reads from the request, or the exception
\* reading them raises
ParseRequest(v, r) ==
  IF v = "final" /\ r.method = "GET"
  THEN [ok |-> TRUE, error |-> "",
        action |-> OrUndefined(r.action),
        regionId |-> OrUndefined(r.regionId),
        daysBack |-> IF r.daysBack.ty = "undef" THEN DaysUndef
                     ELSE parseInt(r.daysBack)]
  ELSE IF r.body = "object"
  THEN [ok |-> TRUE, error |-> "", action |-> r.action,
        regionId |-> r.regionId, daysBack |-> r.daysBack]
  ELSE [ok |-> FALSE,
        error |-> IF r.body = "null" THEN "Cannot read properties of null"
                  ELSE IF r.body = "none" THEN "Unexpected end of JSON input"
                  ELSE "Unexpected token",
        action |-> Undefined, regionId |-> Undefined, daysBack |-> DaysUndef]

----------------------------------------------------------------------------
(* Responses and the calls in flight *)

Response(status, kind, error) ==
  [status |-> status, kind |-> kind, error |-> error, regionId |-> Undefined,
   bbox |-> NoBbox, fireRisk |-> Undefined, fireData |-> <<>>,
   hotspots |-> <<>>, gee |-> <<>>, products |-> <<>>, regions |-> <<>>,
   floodRisk |-> Undefined, vegetationHealth |-> Undefined]

NoResponse == Response(0, "none", "")

NoEstimate == [ndviMean |-> Undefined]

NoAnalysis == [kind |-> "none", geeConnected |-> FALSE, est |-> NoEstimate]

GeeOff ==
  [pc |-> "off", days |-> DaysUndef, tokenAnswer |-> "none", token |-> "none",
   eeAnswer |-> "none", connected |-> FALSE, draw |-> <<>>,
   result |-> NoAnalysis, error |-> ""]
NoAnswer == [kind |-> "none", body |-> <<>>]
FireOff ==
  [pc |-> "off", days |-> DaysUndef, answer |-> NoAnswer, hotspots |-> <<>>,
   error |-> ""]
CopOff ==
  [pc |-> "off", s2 |-> "off", s1 |-> "off", n2 |-> 0, n1 |-> 0, cloud |-> 100,
   days |-> DaysUndef, error |-> ""]
NoProbe == [fn |-> "none"]

\* getGEEAnalysis(bbox, days) up to its first await: the final variant
\* formats the two dates first, the GEE + Copernicus variant asks for the
\* token first
StartGee(v, days) ==
  IF v = "final" /\ ~DateIsValid(days)
  THEN [GeeOff EXCEPT !.pc = "rejected", !.days = days, !.error = "Invalid time value"]
  ELSE [GeeOff EXCEPT !.pc = "auth", !.days = days]

\* getFireHotspots(bbox, days) up to its fetch: destructuring the bbox is
\* outside its try
StartFire(bbox, days) ==
  IF bbox = NoBbox
  THEN [FireOff EXCEPT !.pc = "rejected", !.days = days,
                       !.error = "undefined is not iterable"]
  ELSE [FireOff EXCEPT !.pc = "wait", !.days = days]

\* searchProducts up to its fetch: the region lookup, the bbox and the two
\* dates, none of them in a try
SearchThrows(regionId, days) ==
  IF LookupRegion(regionId).kind = "undefined" THEN "Unknown region: id"
  ELSE IF LookupRegion(regionId).kind = "inherited" THEN "undefined is not iterable"
  ELSE IF ~DateIsValid(days) THEN "Invalid time value"
  ELSE ""

----------------------------------------------------------------------------
(* The handler *)

Init ==
  /\ variant \in Variants
  /\ config \in Configs(variant)
  /\ req = NoRequest
  /\ pc = "idle"
  /\ region = NoRegion
  /\ gee = GeeOff
  /\ fire = FireOff
  /\ cop = CopOff
  /\ resp = NoResponse
  /\ calls = {}
  /\ probe = NoProbe

\* a request arrives
Receive ==
  /\ pc = "idle"
  /\ \E r \in Requests : req' = r
  /\ pc' = "received"
  /\ UNCHANGED <<variant, config, region, gee, fire, cop, resp, calls, probe>>

\* the handler returns r
Return(r) ==
  /\ resp' = r
  /\ pc' = "done"

\* as ErrorResponse, with a fixed message in place of the exception's
ErrorResponseGeneric(status, message) ==
  Response(status, "error", "Internal server error")

ErrorResponse(status, message) == Response(status, "error", message)

\* as SupportedActions, with search dispatched by every variant
SupportedActionsWithSearch(v) ==
  {"list-regions", "analyze", "fires", "search"}
  \cup (IF HasGEE(v) THEN {"gee"} ELSE {})

\* the actions the deployed variant dispatches
SupportedActions(v) ==
  {"list-regions", "analyze", "fires"}
  \cup (IF HasGEE(v) THEN {"gee"} ELSE {})
  \cup (IF HasCopernicus(v) THEN {"search"} ELSE {})

\* the handler from its entry to its first await on an upstream call, or to
\* the response when it needs none
Dispatch ==
  /\ pc = "received"
  /\ LET p == ParseRequest(variant, req)
         r == LookupRegion(p.regionId)
     IN
     IF req.method = "OPTIONS"
     THEN /\ Return(Response(200, "preflight", ""))
          /\ UNCHANGED <<region, gee, fire, cop, calls>>
     ELSE IF ~p.ok
     THEN /\ Return(ErrorResponse(500, p.error))
          /\ UNCHANGED <<region, gee, fire, cop, calls>>
     ELSE IF p.action = "list-regions"
     THEN /\ Return([Response(200, "regions", "") EXCEPT !.regions = ListRegions])
          /\ UNCHANGED <<region, gee, fire, cop, calls>>
     ELSE IF p.action \notin SupportedActions(variant)
     THEN /\ Return(ErrorResponse(400, "Invalid action"))
          /\ UNCHANGED <<region, gee, fire, cop, calls>>
     ELSE IF IsFalsyStr(p.regionId)
     THEN /\ Return(ErrorResponse(400, "regionId is required"))
          /\ UNCHANGED <<region, gee, fire, cop, calls>>
     ELSE IF p.action = "search"
     THEN \* the token is asked for before the region is looked up
          /\ region' = NoRegion
          /\ UNCHANGED <<gee, fire>>
          /\ IF config.copCreds
             THEN /\ cop' = [CopOff EXCEPT !.pc = "token_wait",
                                           !.days = DaysOr(p.daysBack, 30)]
                  /\ calls' = calls \cup {"cop_token"}
                  /\ pc' = "await_cop"
                  /\ UNCHANGED resp
             ELSE /\ Return(ErrorResponse(500, "Copernicus credentials not configured"))
                  /\ UNCHANGED <<cop, calls>>
     ELSE IF r.kind = "undefined"
     THEN /\ Return(ErrorResponse(400, "Unknown region"))
          /\ UNCHANGED <<region, gee, fire, cop, calls>>
     ELSE IF p.action = "gee"
     THEN /\ region' = r
          /\ gee' = StartGee(variant, DaysOr(p.daysBack, 30))
          /\ pc' = "await_data"
          /\ UNCHANGED <<fire, cop, calls, resp>>
     ELSE IF p.action = "fires"
     THEN /\ region' = r
          /\ fire' = StartFire(r.bbox, MathMin(DaysOr(p.daysBack, 3), 10))
          /\ calls' = IF r.bbox = NoBbox THEN calls ELSE calls \cup {"firms"}
          /\ pc' = "await_data"
          /\ UNCHANGED <<gee, cop, resp>>
     ELSE \* analyze
     IF variant = "final" \/ ~config.copCreds
     THEN IF variant = "copernicus"
          THEN /\ Return(ErrorResponse(500, "Copernicus credentials not configured"))
               /\ UNCHANGED <<region, gee, fire, cop, calls>>
          ELSE \* GEE and FIRMS in parallel
               /\ region' = r
               /\ gee' = StartGee(variant, DaysOr(p.daysBack, 30))
               /\ fire' = StartFire(r.bbox, MathMin(DaysOr(p.daysBack, 3), 10))
               /\ calls' = IF r.bbox = NoBbox THEN calls ELSE calls \cup {"firms"}
               /\ pc' = "await_data"
               /\ UNCHANGED <<cop, resp>>
     ELSE \* the Copernicus token first
          /\ region' = r
          /\ cop' = [CopOff EXCEPT !.pc = "token_wait",
                                   !.days = DaysOr(p.daysBack, 30)]
          /\ calls' = calls \cup {"cop_token"}
          /\ pc' = "await_cop"
          /\ UNCHANGED <<gee, fire, resp>>
  /\ UNCHANGED <<variant, config, req, probe>>

----------------------------------------------------------------------------
(* The seasonal estimate of getGEEAnalysis / getEstimatedGEEAnalysis *)

\* NDVI is in units of 0.00001 before rounding and of 0.001 after;
\* percentages are in units of 0.001 before rounding and of 0.1 after; a
\* draw of Math.random() is in thousandths, 0..999

NumMax(a, b) == IF a >= b THEN a ELSE b
NumMin(a, b) == IF a <= b THEN a ELSE b

\* Math.round(x / unit): half goes up
RoundTo(x, unit) == (2 * x + unit) \div (2 * unit)

\* as NdviBase, without the seasons
NdviBaseFlat(month) == 40000

\* the seasonal base of ndviMean, month counted from 0
NdviBase(month) ==
  IF month >= 5 /\ month <= 8 THEN 55000
  ELSE IF (month >= 3 /\ month <= 4) \/ (month >= 9 /\ month <= 10) THEN 40000
  ELSE 15000

\* centerLat > 46.5, the bbox in tenths of a degree
IsMountain(bbox) == bbox[2] + bbox[4] > 930

\* ndviMean before rounding
NdviMeanOf(month, bbox, draw) ==
  NdviBase(month) + 15 * draw - (IF IsMountain(bbox) THEN 5000 ELSE 0)

\* floodPercentage before rounding
FloodOf(month, draw) ==
  2000 + 3 * draw + (IF month >= 3 /\ month <= 5 THEN 3000 ELSE 0)

\* the vegetationStress label of an unrounded ndviMean
StressOf(mean) ==
  IF mean > 50000 THEN "low" ELSE IF mean > 30000 THEN "moderate" ELSE "high"

\* the numbers of the estimate, rounded as they are returned
EstimateGEE(month, bbox, drawNdvi, drawFlood, drawWater) ==
  LET mean == NdviMeanOf(month, bbox, drawNdvi)
  IN [ndviMean |-> RoundTo(mean, 100),
      ndviMin |-> RoundTo(NumMax(-100000, mean - 20000), 100),
      ndviMax |-> RoundTo(NumMin(100000, mean + 20000), 100),
      floodPercentage |-> RoundTo(FloodOf(month, drawFlood), 100),
      waterPercentage |-> RoundTo(1500 + 2 * drawWater, 100),
      vegetationStress |-> StressOf(mean)]

Months == 0..11

\* the draws of Math.random() tried: the ends of [0, 1) and its middle
Draws == {0, 1, 500, 998, 999}

----------------------------------------------------------------------------
(* GEE: getGEEAccessToken, queryGEE, getGEEAnalysis *)

\* how the token endpoint may answer: no answer, a non-2xx status, a 2xx
\* body that is no JSON, a 2xx JSON without access_token, a 2xx JSON with one
TokenOutcomes == {"neterr", "non2xx", "badjson", "no_token", "token"}

\* how the Earth Engine endpoint may answer
EEOutcomes(v) ==
  IF v = "final" THEN {"neterr", "ok", "404", "403"}
  ELSE {"neterr", "ok", "403", "badjson", "no_images"}

\* getGEECredentials() is not null: the key is set and is JSON
HasCredentials(c) == c.geeKey \in {"badpem", "ok"}

\* getGEEAccessToken reaches its fetch: the credentials are there and the
\* private key imports and signs
TokenRequested(c) == HasCredentials(c) /\ c.geeKey = "ok"

\* what getGEEAccessToken returns once the token endpoint has answered:
\* tokenData.access_token of a 2xx JSON answer, null otherwise
TokenOfAnswer(outcome) ==
  IF outcome = "token" THEN "bearer"
  ELSE IF outcome = "no_token" THEN "undefined"
  ELSE "null"

\* !geeToken
IsFalsyToken(token) == token \in {"null", "undefined"}

\* the GEE + Copernicus variant's estimate and its all-null analysis carry
\* no geeConnected
GeeAnalysis(kind, connected) ==
  [kind |-> kind, geeConnected |-> connected, est |-> NoEstimate]

\* an analysis that carries the numbers of the estimate
GeeEstimated(connected, est) ==
  [kind |-> "estimate", geeConnected |-> connected, est |-> est]

\* the months and draws the handler's estimate is followed through
HandlerMonths == {0, 5}
HandlerDraws == {<<0, 0>>, <<999, 999>>}

\* as AfterToken, but a missing token is raised as an error
AfterTokenThrowing(v, g, token, bbox) ==
  IF IsFalsyToken(token)
  THEN [g EXCEPT !.token = token, !.pc = "rejected", !.error = "No GEE credentials"]
  ELSE IF v # "final" /\ ~DateIsValid(g.days)
  THEN [g EXCEPT !.token = token, !.pc = "rejected", !.error = "Invalid time value"]
  ELSE IF v # "final" /\ bbox = NoBbox
  THEN [g EXCEPT !.token = token, !.pc = "rejected",
                 !.error = "undefined is not iterable"]
  ELSE [g EXCEPT !.token = token, !.pc = "ee_wait"]

\* the call once getGEEAccessToken has returned token, up to its next await
AfterToken(v, g, token, bbox) ==
  IF v = "final"
  THEN IF IsFalsyToken(token)
       THEN [g EXCEPT !.token = token, !.connected = FALSE, !.pc = "estimate"]
       ELSE [g EXCEPT !.token = token, !.pc = "ee_wait"]
  ELSE IF IsFalsyToken(token)
       THEN [g EXCEPT !.token = token, !.pc = "resolved",
                      !.result = GeeAnalysis("null", FALSE)]
       ELSE IF ~DateIsValid(g.days)
       THEN [g EXCEPT !.token = token, !.pc = "rejected",
                      !.error = "Invalid time value"]
       ELSE IF bbox = NoBbox
       THEN [g EXCEPT !.token = token, !.pc = "rejected",
                      !.error = "undefined is not iterable"]
       ELSE [g EXCEPT !.token = token, !.pc = "ee_wait"]

\* the credentials are read and the JWT signed; the token is asked for, or
\* the call goes on without one
GeeAuth ==
  /\ gee.pc = "auth"
  /\ IF TokenRequested(config)
     THEN /\ gee' = [gee EXCEPT !.pc = "token_wait"]
          /\ calls' = calls \cup {"token"}
     ELSE /\ gee' = AfterToken(variant, gee, "null", region.bbox)
          /\ UNCHANGED calls
  /\ UNCHANGED <<variant, config, req, pc, region, fire, cop, resp, probe>>

\* the token endpoint answers
GeeTokenResponse ==
  /\ gee.pc = "token_wait"
  /\ \E outcome \in TokenOutcomes :
       /\ gee' = AfterToken(variant, [gee EXCEPT !.tokenAnswer = outcome],
                            TokenOfAnswer(outcome), region.bbox)
       /\ calls' = IF gee'.pc = "ee_wait" THEN calls \cup {"ee"} ELSE calls
  /\ UNCHANGED <<variant, config, req, pc, region, fire, cop, resp, probe>>

\* as ConnectedOf, a 404 taken for a failure
ConnectedOfStrict(outcome) == outcome = "ok"

\* queryGEE's verdict on the asset listing
ConnectedOf(outcome) == outcome \in {"ok", "404"}

\* the Earth Engine endpoint answers
GeeEEResponse ==
  /\ gee.pc = "ee_wait"
  /\ \E outcome \in EEOutcomes(variant) :
       IF variant = "final"
       THEN gee' = [gee EXCEPT !.eeAnswer = outcome,
                               !.connected = ConnectedOf(outcome),
                               !.pc = "estimate"]
       ELSE IF outcome = "no_images"
       THEN gee' = [gee EXCEPT !.eeAnswer = outcome, !.pc = "resolved",
                               !.result = GeeAnalysis("nulls", FALSE)]
       ELSE \E month \in HandlerMonths, draws \in HandlerDraws :
              gee' = [gee EXCEPT
                        !.eeAnswer = outcome, !.pc = "resolved",
                        !.draw = <<month, draws[1], draws[2]>>,
                        !.result = GeeEstimated(FALSE,
                                     EstimateGEE(month, region.bbox, draws[1],
                                                 draws[2], 500))]
  /\ UNCHANGED <<variant, config, req, pc, region, fire, cop, resp, calls, probe>>

\* the final variant's estimate, after queryGEE has returned
GeeEstimate ==
  /\ gee.pc = "estimate"
  /\ IF region.bbox = NoBbox
     THEN gee' = [gee EXCEPT !.pc = "rejected", !.error = "undefined is not iterable"]
     ELSE \E month \in HandlerMonths, draws \in HandlerDraws :
            gee' = [gee EXCEPT
                      !.pc = "resolved",
                      !.draw = <<month, draws[1], draws[2]>>,
                      !.result = GeeEstimated(gee.connected,
                                   EstimateGEE(month, region.bbox, draws[1],
                                               draws[2], 500))]
  /\ UNCHANGED <<variant, config, req, pc, region, fire, cop, resp, calls, probe>>

----------------------------------------------------------------------------
(* FIRMS: getFireHotspots *)

FirmsHeader ==
  << TxtCell("latitude"), TxtCell("longitude"), TxtCell("bright_ti4"),
     TxtCell("confidence"), TxtCell("acq_date"), TxtCell("acq_time"),
     TxtCell("satellite"), TxtCell("frp") >>

\* a detection inside Cluj, and a line whose coordinates are no numbers
RowCluj ==
  << NumCell(468), NumCell(236), NumCell(330), TxtCell("h"), TxtCell("2025-07-01"),
     TxtCell("1030"), TxtCell("N"), NumCell(60) >>
RowJunk ==
  << TxtCell("n/a"), TxtCell("n/a"), TxtCell("n/a"), TxtCell("n"), TxtCell(""),
     TxtCell(""), TxtCell(""), TxtCell("") >>

RECURSIVE SeqsUpTo(_, _)
SeqsUpTo(S, n) ==
  IF n = 0 THEN {<<>>}
  ELSE LET shorter == SeqsUpTo(S, n - 1)
       IN shorter \cup {Append(q, x) : q \in shorter, x \in S}

\* the bodies FIRMS may answer with a 2xx: the empty text, and a header
\* followed by up to MaxRows lines
FirmsBodies ==
  {<<>>, <<FirmsHeader, <<>> >>}
  \cup {<<FirmsHeader>> \o rows : rows \in SeqsUpTo({RowCluj, RowJunk}, MaxRows)}

\* how the FIRMS endpoint may answer: no answer, a non-2xx status, a body
FirmsOutcomes ==
  {[kind |-> "neterr", body |-> <<>>], [kind |-> "non2xx", body |-> <<>>]}
  \cup {[kind |-> "ok", body |-> b] : b \in FirmsBodies}

\* what getFireHotspots returns once FIRMS has answered
HotspotsOfAnswer(outcome, bbox, hasKey) ==
  IF outcome.kind = "ok" THEN ParseFirmsCsv(outcome.body, bbox, hasKey) ELSE <<>>

\* the FIRMS endpoint answers
FirmsResponse ==
  /\ fire.pc = "wait"
  /\ \E outcome \in FirmsOutcomes :
       fire' = [fire EXCEPT !.pc = "resolved", !.answer = outcome,
                            !.hotspots = HotspotsOfAnswer(outcome, region.bbox,
                                                         config.firmsKey)]
  /\ UNCHANGED <<variant, config, req, pc, region, gee, cop, resp, calls, probe>>

----------------------------------------------------------------------------
(* Copernicus: getAccessToken, searchProducts *)

CopTokenOutcomes == {"neterr", "non2xx", "badjson", "ok"}

\* how the catalogue may answer a search: a failure (no answer, a non-2xx
\* status, no JSON), or a number of products
CopSearchOutcomes == {-1, 0, 3}

\* the average cloud cover, in percent, of the Sentinel-2 products found
CloudCovers == {10, 25}

\* the Copernicus token endpoint answers; the handler goes on to the awaited calls of the request once its Copernicus token is settled
CopTokenResponse ==
  /\ cop.pc = "token_wait"
  /\ pc = "await_cop"
  /\ LET p == ParseRequest(variant, req)
         threw == SearchThrows(p.regionId, cop.days)
         startFire == StartFire(region.bbox, MathMin(DaysOr(p.daysBack, 3), 10))
     IN \E outcome \in CopTokenOutcomes :
       IF p.action = "search"
       THEN /\ UNCHANGED <<gee, fire>>
            /\ IF outcome # "ok"
               THEN /\ cop' = [cop EXCEPT !.pc = "failed"]
                    /\ Return(ErrorResponse(500, "Failed to get access token"))
                    /\ UNCHANGED calls
               ELSE IF threw # ""
               THEN /\ cop' = [cop EXCEPT !.pc = "search", !.s2 = "rejected",
                                          !.error = threw]
                    /\ Return(ErrorResponse(500, threw))
                    /\ UNCHANGED calls
               ELSE /\ cop' = [cop EXCEPT !.pc = "search", !.s2 = "wait"]
                    /\ calls' = calls \cup {"cop_search"}
                    /\ pc' = "await_data"
                    /\ UNCHANGED resp
       ELSE IF variant = "copernicus"
       THEN \* analyze: nothing catches a Copernicus failure
            /\ UNCHANGED gee
            /\ IF outcome # "ok"
               THEN /\ cop' = [cop EXCEPT !.pc = "failed"]
                    /\ Return(ErrorResponse(500, "Failed to get access token"))
                    /\ UNCHANGED <<fire, calls>>
               ELSE /\ cop' = IF threw # ""
                              THEN [cop EXCEPT !.pc = "search", !.s2 = "rejected",
                                               !.s1 = "rejected", !.error = threw]
                              ELSE [cop EXCEPT !.pc = "search", !.s2 = "wait",
                                               !.s1 = "wait"]
                    /\ fire' = startFire
                    /\ calls' = calls
                                \cup (IF threw = "" THEN {"cop_search"} ELSE {})
                                \cup (IF region.bbox # NoBbox THEN {"firms"} ELSE {})
                    /\ pc' = "await_data"
                    /\ UNCHANGED resp
       ELSE \* analyze of the GEE + Copernicus variant: a Copernicus failure
            \* is caught and GEE and FIRMS are asked
            /\ UNCHANGED resp
            /\ IF outcome = "ok" /\ threw = ""
               THEN /\ cop' = [cop EXCEPT !.pc = "search", !.s2 = "wait", !.s1 = "wait"]
                    /\ calls' = calls \cup {"cop_search"}
                    /\ UNCHANGED <<pc, gee, fire>>
               ELSE /\ cop' = [cop EXCEPT !.pc = "failed"]
                    /\ gee' = StartGee(variant, DaysOr(p.daysBack, 30))
                    /\ fire' = startFire
                    /\ calls' = IF region.bbox = NoBbox THEN calls
                                ELSE calls \cup {"firms"}
                    /\ pc' = "await_data"
  /\ UNCHANGED <<variant, config, req, region, probe>>

\* the catalogue answers the Sentinel-2 search
CopSearch2Response ==
  /\ cop.s2 = "wait"
  /\ \E n \in CopSearchOutcomes, cloud \in CloudCovers :
       cop' = IF n < 0
              THEN [cop EXCEPT !.s2 = "rejected", !.error = "Failed to search products"]
              ELSE [cop EXCEPT !.s2 = "resolved", !.n2 = n,
                               !.cloud = IF n = 0 THEN 100 ELSE cloud]
  /\ UNCHANGED <<variant, config, req, pc, region, gee, fire, resp, calls, probe>>

\* the catalogue answers the Sentinel-1 search
CopSearch1Response ==
  /\ cop.s1 = "wait"
  /\ \E n \in CopSearchOutcomes :
       cop' = IF n < 0
              THEN [cop EXCEPT !.s1 = "rejected", !.error = "Failed to search products"]
              ELSE [cop EXCEPT !.s1 = "resolved", !.n1 = n]
  /\ UNCHANGED <<variant, config, req, pc, region, gee, fire, resp, calls, probe>>

\* analyze of the GEE + Copernicus variant, once Promise.all of the two
\* searches settles: the products are kept only when both searches
\* succeeded; then GEE and FIRMS are asked in parallel
CopernicusSettled ==
  /\ pc = "await_cop"
  /\ cop.pc = "search"
  /\ \/ "rejected" \in {cop.s2, cop.s1}
     \/ (cop.s2 = "resolved" /\ cop.s1 = "resolved")
  /\ LET p == ParseRequest(variant, req)
     IN /\ cop' = IF "rejected" \in {cop.s2, cop.s1}
                  THEN [cop EXCEPT !.pc = "failed"]
                  ELSE [cop EXCEPT !.pc = "done"]
        /\ gee' = StartGee(variant, DaysOr(p.daysBack, 30))
        /\ fire' = StartFire(region.bbox, MathMin(DaysOr(p.daysBack, 3), 10))
        /\ calls' = IF region.bbox = NoBbox THEN calls ELSE calls \cup {"firms"}
        /\ pc' = "await_data"
  /\ UNCHANGED <<variant, config, req, region, resp, probe>>

----------------------------------------------------------------------------
(* The responses of the data actions *)

\* the vegetation label of a non-zero ndviMean, in thousandths
VegetationHealthOf(ndviMean) ==
  IF ndviMean > 500 THEN "good" ELSE IF ndviMean < 300 THEN "poor" ELSE "moderate"

\* the flood label of a floodPercentage, in tenths of a percent
FloodRiskOf(floodPercentage) ==
  IF floodPercentage < 30 THEN "low"
  ELSE IF floodPercentage > 70 THEN "high"
  ELSE "medium"

\* the flood and vegetation labels of the final variant: from the GEE
\* analysis, 'medium' and 'moderate' when it has no numbers
HazardFromGee(geeAnalysis) ==
  IF geeAnalysis.est = NoEstimate
  THEN [floodRisk |-> "medium", vegetationHealth |-> "moderate"]
  ELSE [floodRisk |-> FloodRiskOf(geeAnalysis.est.floodPercentage),
        vegetationHealth |-> IF geeAnalysis.est.ndviMean = 0 THEN "moderate"
                             ELSE VegetationHealthOf(geeAnalysis.est.ndviMean)]

\* the flood and vegetation labels of the legacy variants: from the number
\* of Sentinel-2 and Sentinel-1 products and the average cloud cover
HazardFromProducts(n2, n1, cloud) ==
  [floodRisk |-> IF n1 >= 3 THEN "low" ELSE IF n1 = 0 THEN "high" ELSE "medium",
   vegetationHealth |-> IF cloud < 20 /\ n2 > 0 THEN "good"
                        ELSE IF cloud > 50 \/ n2 = 0 THEN "poor"
                        ELSE "moderate"]

\* slice(0, n)
\* as Slice, nothing cut
SliceNone(q, n) == q

Slice(q, n) == SubSeq(q, 1, IF Len(q) < n THEN Len(q) ELSE n)

FireDataOf(fa) ==
  [activeHotspots |-> fa.activeHotspots,
   highConfidenceCount |-> fa.highConfidenceCount,
   maxBrightness |-> fa.maxBrightness,
   totalFRP |-> fa.totalFRP]

\* the body of the fires action
FiresResponse(regionId, bbox, hotspots) ==
  LET fireAnalysis == calculateFireRisk(hotspots)
  IN [Response(200, "fires", "") EXCEPT
        !.regionId = regionId, !.bbox = bbox,
        !.fireRisk = fireAnalysis.fireRisk,
        !.fireData = <<FireDataOf(fireAnalysis)>>,
        !.hotspots = hotspots]

\* the body of the analyze action: the fire part of the indicators comes
\* from the whole list, the list returned is cut to 20
AnalyzeResponse(regionId, bbox, geeAnalysis, hotspots, products, labels) ==
  LET fireAnalysis == calculateFireRisk(hotspots)
  IN [Response(200, "analyze", "") EXCEPT
        !.floodRisk = labels.floodRisk,
        !.vegetationHealth = labels.vegetationHealth,
        !.regionId = regionId, !.bbox = bbox,
        !.fireRisk = fireAnalysis.fireRisk,
        !.fireData = <<FireDataOf(fireAnalysis)>>,
        !.hotspots = Slice(hotspots, 20),
        !.gee = geeAnalysis,
        !.products = products]

\* the body of the gee action; the GEE + Copernicus variant answers 503
\* when it has no analysis
GeeResponse(regionId, bbox, geeAnalysis) ==
  IF geeAnalysis.kind = "null"
  THEN ErrorResponse(503, "GEE not configured or unavailable")
  ELSE [Response(200, "gee", "") EXCEPT
          !.regionId = regionId, !.bbox = bbox, !.gee = <<geeAnalysis>>]

\* the calls the handler awaits jointly, as <<state, error>> pairs
Awaited(v, action) ==
  IF action = "gee" THEN {<<gee.pc, gee.error>>}
  ELSE IF action = "fires" THEN {<<fire.pc, fire.error>>}
  ELSE IF action = "search" THEN {<<cop.s2, cop.error>>}
  ELSE IF v = "copernicus"
  THEN {<<cop.s2, cop.error>>, <<cop.s1, cop.error>>, <<fire.pc, fire.error>>}
  ELSE {<<gee.pc, gee.error>>, <<fire.pc, fire.error>>}

\* the products the analyze action reports
ProductsOf(v) ==
  IF v = "final" THEN <<0, 0, 100>>
  ELSE IF v = "copernicus" THEN <<cop.n2, cop.n1, cop.cloud>>
  ELSE IF cop.pc = "done" THEN <<cop.n2, cop.n1, cop.cloud>> ELSE <<0, 0, 100>>

\* the awaited calls have settled: the first rejection is caught and answered
\* with a 500, otherwise the results are put together
Respond ==
  /\ pc = "await_data"
  /\ LET p == ParseRequest(variant, req)
         awaited == Awaited(variant, p.action)
     IN \/ \E a \in awaited :
             /\ a[1] = "rejected"
             /\ Return(ErrorResponse(500, a[2]))
        \/ /\ \A a \in awaited : a[1] = "resolved"
           /\ Return(IF p.action = "gee"
                     THEN GeeResponse(p.regionId, region.bbox, gee.result)
                     ELSE IF p.action = "fires"
                     THEN FiresResponse(p.regionId, region.bbox, fire.hotspots)
                     ELSE IF p.action = "search"
                     THEN [Response(200, "products", "") EXCEPT !.products = <<cop.n2>>]
                     ELSE AnalyzeResponse(p.regionId, region.bbox,
                                          IF HasGEE(variant) THEN <<gee.result>> ELSE <<>>,
                                          fire.hotspots, ProductsOf(variant),
                                          IF variant = "final"
                                          THEN HazardFromGee(gee.result)
                                          ELSE HazardFromProducts(
                                                 ProductsOf(variant)[1],
                                                 ProductsOf(variant)[2],
                                                 ProductsOf(variant)[3])))
  /\ UNCHANGED <<variant, config, req, region, gee, fire, cop, calls, probe>>

\* the invocation ends; the next request finds nothing of it
Finish ==
  /\ pc = "done"
  /\ pc' = "idle"
  /\ req' = NoRequest
  /\ region' = NoRegion
  /\ gee' = GeeOff
  /\ fire' = FireOff
  /\ cop' = CopOff
  /\ resp' = NoResponse
  /\ calls' = {}
  /\ UNCHANGED <<variant, config, probe>>

Next ==
  \/ Receive
  \/ Dispatch
  \/ GeeAuth
  \/ GeeTokenResponse
  \/ GeeEEResponse
  \/ GeeEstimate
  \/ FirmsResponse
  \/ CopTokenResponse
  \/ CopSearch2Response
  \/ CopSearch1Response
  \/ CopernicusSettled
  \/ Respond
  \/ Finish

Spec == Init /\ [][Next]_vars

\* every fetch settles (with an answer or a network error) and the runtime
\* runs every continuation that is ready; requests arrive or do not
Fairness ==
  /\ WF_vars(Dispatch)
  /\ WF_vars(GeeAuth)
  /\ WF_vars(GeeTokenResponse)
  /\ WF_vars(GeeEEResponse)
  /\ WF_vars(GeeEstimate)
  /\ WF_vars(FirmsResponse)
  /\ WF_vars(CopTokenResponse)
  /\ WF_vars(CopSearch2Response)
  /\ WF_vars(CopSearch1Response)
  /\ WF_vars(CopernicusSettled)
  /\ WF_vars(Respond)
  /\ WF_vars(Finish)

\* the final variant deployed
InitFinal == Init /\ variant = "final"

NextFinal ==
  \/ Receive
  \/ Dispatch
  \/ GeeAuth
  \/ GeeTokenResponse
  \/ GeeEEResponse
  \/ GeeEstimate
  \/ FirmsResponse
  \/ Respond
  \/ Finish

SpecFinalLive == InitFinal /\ [][NextFinal]_vars /\ Fairness

----------------------------------------------------------------------------
(* calculateFireRisk and the two response bodies, applied to hotspot lists *)

\* the handler at rest, for the specifications that apply one function
HandlerAtRest ==
  /\ variant = "final"
  /\ config = [geeKey |-> "missing", firmsKey |-> FALSE, copCreds |-> FALSE]
  /\ req = NoRequest
  /\ pc = "idle"
  /\ region = NoRegion
  /\ gee = GeeOff
  /\ fire = FireOff
  /\ cop = CopOff
  /\ resp = NoResponse
  /\ calls = {}

\* a confidence the filter counts as high and one it does not
ConfidencePairs ==
  { <<TxtCell("h"), TxtCell("n")>>,
    <<TxtCell("high"), TxtCell("l")>>,
    <<JsNumCell(80), JsNumCell(79)>> }

Hotspot(confidence, frp) ==
  [latitude |-> Num(468), longitude |-> Num(236), brightness |-> Num(330),
   confidence |-> confidence, acq_date |-> TxtCell("2025-07-01"),
   acq_time |-> TxtCell("1030"), satellite |-> TxtCell("N"), frp |-> Num(frp)]

RiskProbe(pair, hotspots, high, frp) ==
  [fn |-> "risk", pair |-> pair, hotspots |-> hotspots, high |-> high, frp |-> frp,
   risk |-> calculateFireRisk(hotspots),
   fires |-> FiresResponse("cluj", REGIONS["cluj"].bbox, hotspots),
   analyze |-> AnalyzeResponse("cluj", REGIONS["cluj"].bbox, <<>>, hotspots,
                               <<0, 0, 100>>, HazardFromGee(NoAnalysis))]

InitRisk ==
  /\ HandlerAtRest
  /\ \E pair \in ConfidencePairs : probe = RiskProbe(pair, <<>>, 0, 0)

\* one more hotspot is detected: of high confidence, of low confidence, or
\* of low confidence and a fire radiative power of 25
RiskAddHotspot ==
  /\ Len(probe.hotspots) < MaxHotspots
  /\ \E kind \in {"high", "low", "frp"} :
       LET h == IF kind = "high" THEN Hotspot(probe.pair[1], 0)
                ELSE IF kind = "low" THEN Hotspot(probe.pair[2], 0)
                ELSE Hotspot(probe.pair[2], 25)
       IN probe' = RiskProbe(probe.pair, Append(probe.hotspots, h),
                             probe.high + (IF kind = "high" THEN 1 ELSE 0),
                             probe.frp + (IF kind = "frp" THEN 25 ELSE 0))
  /\ UNCHANGED <<variant, config, req, pc, region, gee, fire, cop, resp, calls>>

NextRisk == RiskAddHotspot

SpecRisk == InitRisk /\ [][NextRisk]_vars

----------------------------------------------------------------------------
(* getFireHotspots' parse, applied to FIRMS bodies *)

ColumnNames ==
  {"latitude", "longitude", "bright_ti4", "brightness", "confidence", "acq_date",
   "acq_time", "satellite", "frp", "scan"}

\* the orders and selections of columns a body may have
HeaderOrders ==
  { <<"latitude", "longitude", "bright_ti4", "confidence", "acq_date", "acq_time",
      "satellite", "frp">>,
    <<"frp", "satellite", "acq_time", "acq_date", "confidence", "bright_ti4",
      "longitude", "latitude">>,
    <<"scan", "longitude", "latitude", "brightness", "frp", "confidence",
      "acq_date", "acq_time", "satellite">>,
    <<"brightness", "latitude", "bright_ti4", "longitude", "confidence", "scan",
      "acq_date", "acq_time", "satellite", "frp">>,
    <<"latitude", "longitude", "confidence", "acq_date", "acq_time", "satellite">> }

Detection(lat, lon, ti4, bright, conf, frp) ==
  [latitude |-> lat, longitude |-> lon, bright_ti4 |-> ti4, brightness |-> bright,
   confidence |-> conf, acq_date |-> TxtCell("2025-07-01"),
   acq_time |-> TxtCell("1030"), satellite |-> TxtCell("N"), frp |-> frp,
   scan |-> NumCell(4)]

\* the detections a line may hold: inside Cluj, on the edge of Cluj's
\* expanded box, just outside it, inside Constanta, and one whose numbers
\* are missing or no numbers
Detections ==
  { Detection(NumCell(468), NumCell(236), NumCell(330), NumCell(310), TxtCell("h"), NumCell(60)),
    Detection(NumCell(462), NumCell(243), PreCell(325), NumCell(305), TxtCell("n"), NumCell(0)),
    Detection(NumCell(461), NumCell(236), NumCell(340), NumCell(320), TxtCell("l"), TxtCell("")),
    Detection(NumCell(442), NumCell(286), NumCell(350), NumCell(300), TxtCell(""), NumCell(12)),
    Detection(TxtCell("n/a"), TxtCell(""), TxtCell("n/a"), TxtCell(""), TxtCell("n"), TxtCell("n/a")) }

\* the line of a detection under a header
LineOf(header, d) == [i \in 1..Len(header) |-> d[header[i]]]

HeaderLineOf(header) == [i \in 1..Len(header) |-> TxtCell(header[i])]

BodyOf(header, rows) ==
  <<HeaderLineOf(header)>> \o [i \in 1..Len(rows) |-> LineOf(header, rows[i])]

ProbeRegions == {"cluj", "fagaras", "constanta"}

FirmsProbe(header, rows, regionId, hasKey) ==
  [fn |-> "firms", header |-> header, rows |-> rows, regionId |-> regionId,
   hasKey |-> hasKey,
   hotspots |-> ParseFirmsCsv(BodyOf(header, rows), REGIONS[regionId].bbox, hasKey)]

InitFirms ==
  /\ HandlerAtRest
  /\ probe = NoProbe

\* a FIRMS body is parsed for a region
FirmsParse ==
  /\ probe = NoProbe
  /\ \E header \in HeaderOrders, rows \in SeqsUpTo(Detections, MaxCsvRows),
        regionId \in ProbeRegions, hasKey \in BOOLEAN :
       probe' = FirmsProbe(header, rows, regionId, hasKey)
  /\ UNCHANGED <<variant, config, req, pc, region, gee, fire, cop, resp, calls>>

NextFirms == FirmsParse

SpecFirms == InitFirms /\ [][NextFirms]_vars

----------------------------------------------------------------------------
(* The estimate, applied to months, regions and draws *)

EstimateProbe(month, regionId, drawNdvi, drawFlood, drawWater, other) ==
  [fn |-> "estimate", month |-> month, regionId |-> regionId,
   draws |-> <<drawNdvi, drawFlood, drawWater>>, other |-> other,
   est |-> EstimateGEE(month, REGIONS[regionId].bbox, drawNdvi, drawFlood, drawWater),
   june |-> EstimateGEE(5, REGIONS[regionId].bbox, drawNdvi, drawFlood, drawWater),
   january |-> EstimateGEE(0, REGIONS[regionId].bbox, other, drawFlood, drawWater)]

InitEstimate ==
  /\ HandlerAtRest
  /\ probe = NoProbe

\* the estimate is computed for a region in a month; the same region is
\* estimated in June with the same draw and in January with another draw
Estimate ==
  /\ probe = NoProbe
  /\ \E month \in Months, regionId \in DOMAIN REGIONS,
        drawNdvi \in Draws, drawFlood \in Draws, drawWater \in {0, 999},
        other \in Draws :
       probe' = EstimateProbe(month, regionId, drawNdvi, drawFlood, drawWater, other)
  /\ UNCHANGED <<variant, config, req, pc, region, gee, fire, cop, resp, calls>>

NextEstimate == Estimate

SpecEstimate == InitEstimate /\ [][NextEstimate]_vars

----------------------------------------------------------------------------
(* The client-side cache: getCachedSatelliteData *)

\* times are in milliseconds
CACHE_TTL_MS == 1800000
FETCH_TIMEOUT_MS == 60000

\* the latest time the client is followed to
MaxClockMs == 1920000

\* how far time moves in one step
TickSteps == {30000, 1800000}

\* localStorage under CACHE_KEY: nothing, text that does not parse, JSON of
\* an object that has no timestamp (such as {}), or an entry; data is the
\* number of region analyses it holds
NoEntry == [kind |-> "none", timestamp |-> 0, data |-> 0]
CorruptEntry == [kind |-> "corrupt", timestamp |-> 0, data |-> 0]
UntimedEntry == [kind |-> "untimed", timestamp |-> 0, data |-> 0]
Entry(data, timestamp) == [kind |-> "entry", timestamp |-> timestamp, data |-> data]

\* getCache() at time now: the entry returned (NoEntry for null) and what is
\* left in storage; Date.now() - undefined is NaN, which is not greater
\* than the time to live
getCache(store, now) ==
  IF store.kind = "none" THEN [cached |-> NoEntry, store |-> store]
  ELSE IF store.kind = "corrupt" THEN [cached |-> NoEntry, store |-> NoEntry]
  ELSE IF store.kind = "untimed" THEN [cached |-> store, store |-> store]
  ELSE IF now - store.timestamp > CACHE_TTL_MS
  THEN [cached |-> NoEntry, store |-> NoEntry]
  ELSE [cached |-> store, store |-> store]

\* setCache(data) at time now
setCache(data, now) == Entry(data, now)

\* how analyzeAllRegions may settle: it rejects, or resolves with a number
\* of region analyses
FetchOutcomes ==
  {[kind |-> "rejected", data |-> 0], [kind |-> "resolved", data |-> 0],
   [kind |-> "resolved", data |-> 2]}

NoOutcome == [kind |-> "none", data |-> 0]

NoResult == [data |-> 0, fromCache |-> FALSE, cacheTime |-> 0, error |-> ""]

\* as Deadline, the timer set twice as long
DeadlineDouble(startedAt) == startedAt + 2 * FETCH_TIMEOUT_MS

\* when the timer of withTimeout, set at startedAt, expires
Deadline(startedAt) == startedAt + FETCH_TIMEOUT_MS

\* the client between two calls
CacheIdle(clock, store, stale) ==
  [fn |-> "cache", clock |-> clock, store |-> store, pc |-> "idle",
   force |-> FALSE, startedAt |-> 0, outcome |-> NoOutcome, stale |-> stale,
   result |-> NoResult]

InitCache ==
  /\ HandlerAtRest
  /\ \E store \in {NoEntry, CorruptEntry, UntimedEntry, Entry(2, 0)} :
       probe = CacheIdle(0, store, "none")

\* getCachedSatelliteData(forceRefresh) up to its await: the stored entry
\* is returned, or the fetch and the timer are started
CacheCall ==
  /\ probe.pc = "idle"
  /\ \E force \in BOOLEAN :
       LET read == getCache(probe.store, probe.clock)
       IN IF ~force /\ read.cached # NoEntry
          THEN probe' = [probe EXCEPT
                           !.force = force, !.store = read.store, !.pc = "returned",
                           !.startedAt = probe.clock,
                           !.result = [data |-> read.cached.data, fromCache |-> TRUE,
                                       cacheTime |-> read.cached.timestamp,
                                       error |-> ""]]
          ELSE probe' = [probe EXCEPT
                           !.force = force,
                           !.store = IF force THEN probe.store ELSE read.store,
                           !.pc = "waiting", !.startedAt = probe.clock]
  /\ UNCHANGED <<variant, config, req, pc, region, gee, fire, cop, resp, calls>>

\* analyzeAllRegions settles before the timer: its data is stored when it
\* is not empty and returned, or its error is thrown
FetchSettles ==
  /\ probe.pc = "waiting"
  /\ \E outcome \in FetchOutcomes :
       probe' = IF outcome.kind = "rejected"
                THEN [probe EXCEPT !.pc = "threw", !.outcome = outcome,
                                   !.result = [NoResult EXCEPT !.error = "fetch failed"]]
                ELSE [probe EXCEPT
                        !.pc = "returned", !.outcome = outcome,
                        !.store = IF outcome.data > 0
                                  THEN setCache(outcome.data, probe.clock)
                                  ELSE probe.store,
                        !.result = [data |-> outcome.data, fromCache |-> FALSE,
                                    cacheTime |-> probe.clock, error |-> ""]]
  /\ UNCHANGED <<variant, config, req, pc, region, gee, fire, cop, resp, calls>>

\* the timer expires first: the call rejects, the fetch is left running
TimerFires ==
  /\ probe.pc = "waiting"
  /\ probe.clock = Deadline(probe.startedAt)
  /\ probe' = [probe EXCEPT !.pc = "threw", !.stale = "running",
                            !.result = [NoResult EXCEPT !.error = "Request timed out"]]
  /\ UNCHANGED <<variant, config, req, pc, region, gee, fire, cop, resp, calls>>

\* as StaleFetchSettles, the late data stored all the same
StaleFetchWrites ==
  /\ probe.stale = "running"
  /\ probe' = [probe EXCEPT !.stale = "settled", !.store = setCache(2, probe.clock)]
  /\ UNCHANGED <<variant, config, req, pc, region, gee, fire, cop, resp, calls>>

\* a fetch whose call has timed out settles: nobody awaits it
StaleFetchSettles ==
  /\ probe.stale = "running"
  /\ probe' = [probe EXCEPT !.stale = "settled"]
  /\ UNCHANGED <<variant, config, req, pc, region, gee, fire, cop, resp, calls>>

\* the caller takes the result or the error
CacheCallEnds ==
  /\ probe.pc \in {"returned", "threw"}
  /\ probe' = CacheIdle(probe.clock, probe.store, probe.stale)
  /\ UNCHANGED <<variant, config, req, pc, region, gee, fire, cop, resp, calls>>

\* clearSatelliteCache()
ClearCache ==
  /\ probe.pc = "idle"
  /\ probe.store # NoEntry
  /\ probe' = [probe EXCEPT !.store = NoEntry]
  /\ UNCHANGED <<variant, config, req, pc, region, gee, fire, cop, resp, calls>>

\* time passes, but not past a timer that is due
Tick ==
  /\ probe.pc \in {"idle", "waiting"}
  /\ \E d \in TickSteps :
       /\ probe.clock + d <= MaxClockMs
       /\ probe.pc = "waiting" => probe.clock + d <= Deadline(probe.startedAt)
       /\ probe' = [probe EXCEPT !.clock = probe.clock + d]
  /\ UNCHANGED <<variant, config, req, pc, region, gee, fire, cop, resp, calls>>

NextCache ==
  \/ CacheCall
  \/ FetchSettles
  \/ TimerFires
  \/ StaleFetchSettles
  \/ CacheCallEnds
  \/ ClearCache
  \/ Tick

SpecCache == InitCache /\ [][NextCache]_vars

----------------------------------------------------------------------------
(* The analyze and fires bodies, applied to long hotspot lists *)

\* which hotspots of a list are of high confidence: all, none, every second
\* one, or those after the twentieth
ConfidencePatterns == {"all", "none", "alternate", "tail"}

IsHighAt(pattern, i) ==
  IF pattern = "all" THEN TRUE
  ELSE IF pattern = "none" THEN FALSE
  ELSE IF pattern = "alternate" THEN i % 2 = 1
  ELSE i > 20

\* a list of n hotspots, the i-th with a fire radiative power of i
ListedHotspots(pair, pattern, n) ==
  [i \in 1..n |-> Hotspot(IF IsHighAt(pattern, i) THEN pair[1] ELSE pair[2], i)]

ListProbe(pair, pattern, n) ==
  LET hotspots == ListedHotspots(pair, pattern, n)
  IN [fn |-> "list", pair |-> pair, pattern |-> pattern, hotspots |-> hotspots,
      fires |-> FiresResponse("cluj", REGIONS["cluj"].bbox, hotspots),
      analyze |-> AnalyzeResponse("cluj", REGIONS["cluj"].bbox, <<>>, hotspots,
                                  <<0, 0, 100>>, HazardFromGee(NoAnalysis))]

InitList ==
  /\ HandlerAtRest
  /\ probe = NoProbe

\* FIRMS has answered a list of hotspots; both bodies are built from it
ListHotspots ==
  /\ probe = NoProbe
  /\ \E pair \in ConfidencePairs, pattern \in ConfidencePatterns, n \in 0..MaxListed :
       probe' = ListProbe(pair, pattern, n)
  /\ UNCHANGED <<variant, config, req, pc, region, gee, fire, cop, resp, calls>>

NextList == ListHotspots

SpecList == InitList /\ [][NextList]_vars

----------------------------------------------------------------------------
(* The client: analyzeAllRegions *)

\* the lists of regions listRegions may resolve with: the first n regions
RegionLists == {SubSeq(RegionOrder, 1, n) : n \in 0..MaxRegionsListed}

\* listRegions settles: the invocation reports an error, or data.regions
ListOutcomes ==
  {[kind |-> "rejected", regions |-> <<>>]}
  \cup {[kind |-> "resolved", regions |-> regions] : regions \in RegionLists}

\* analyzeRegion(id).catch(...): the analysis, or null for a rejection
CaughtAnalysis(id, settled) ==
  IF settled = "ok" THEN [kind |-> "analysis", regionId |-> id]
  ELSE [kind |-> "null", regionId |-> id]

\* as AwaitAll, the rejections of the regions not caught
AwaitAllUncaught(settled) ==
  IF \E i \in DOMAIN settled : settled[i] = "failed" THEN "rejected"
  ELSE IF \E i \in DOMAIN settled : settled[i] = "pending" THEN "pending"
  ELSE "resolved"

\* Promise.all over the caught calls: none of them rejects
AwaitAll(settled) ==
  IF \E i \in DOMAIN settled : settled[i] = "pending" THEN "pending" ELSE "resolved"

IsAnalysis(a) == a.kind # "null"

\* analyses.filter(a => a !== null)
FilterAnalyses(regions, settled) ==
  SelectSeq([i \in DOMAIN regions |-> CaughtAnalysis(regions[i], settled[i])],
            IsAnalysis)

AllIdle == [fn |-> "all", pc |-> "idle", listed |-> "none", regions |-> <<>>,
            settled |-> <<>>, result |-> <<>>, error |-> ""]

InitAll ==
  /\ HandlerAtRest
  /\ probe = AllIdle

\* analyzeAllRegions() up to its first await
AllCall ==
  /\ probe.pc = "idle"
  /\ probe' = [AllIdle EXCEPT !.pc = "listing"]
  /\ UNCHANGED <<variant, config, req, pc, region, gee, fire, cop, resp, calls>>

\* listRegions settles: its error is thrown, or one analyzeRegion call is
\* started for each region
ListSettles ==
  /\ probe.pc = "listing"
  /\ \E outcome \in ListOutcomes :
       probe' = IF outcome.kind = "rejected"
                THEN [probe EXCEPT !.pc = "rejected", !.listed = "rejected",
                                   !.error = "Failed to list regions"]
                ELSE [probe EXCEPT
                        !.pc = "analyzing", !.listed = "resolved",
                        !.regions = outcome.regions,
                        !.settled = [i \in DOMAIN outcome.regions |-> "pending"]]
  /\ UNCHANGED <<variant, config, req, pc, region, gee, fire, cop, resp, calls>>

\* one of the analyzeRegion calls settles, in any order
RegionSettles ==
  /\ probe.pc = "analyzing"
  /\ \E i \in DOMAIN probe.settled, how \in {"ok", "failed"} :
       /\ probe.settled[i] = "pending"
       /\ probe' = [probe EXCEPT !.settled[i] = how]
  /\ UNCHANGED <<variant, config, req, pc, region, gee, fire, cop, resp, calls>>

\* the joint await settles and the analyses that are not null are returned
AllSettles ==
  /\ probe.pc = "analyzing"
  /\ AwaitAll(probe.settled) # "pending"
  /\ probe' = IF AwaitAll(probe.settled) = "rejected"
              THEN [probe EXCEPT !.pc = "rejected",
                                 !.error = "Failed to analyze region"]
              ELSE [probe EXCEPT
                      !.pc = "resolved",
                      !.result = FilterAnalyses(probe.regions, probe.settled)]
  /\ UNCHANGED <<variant, config, req, pc, region, gee, fire, cop, resp, calls>>

\* the caller takes the result or the error
AllEnds ==
  /\ probe.pc \in {"resolved", "rejected"}
  /\ probe' = AllIdle
  /\ UNCHANGED <<variant, config, req, pc, region, gee, fire, cop, resp, calls>>

NextAll == AllCall \/ ListSettles \/ RegionSettles \/ AllSettles \/ AllEnds

SpecAll == InitAll /\ [][NextAll]_vars

----------------------------------------------------------------------------
(* The announcements panel: cleanupOldAnnouncements *)

MAX_ANNOUNCEMENTS == 3

\* volunteer_announcements: row i is the i-th created (created_at defaults
\* to now()), and is active, inactive or deleted
RECURSIVE ActiveDescUpTo(_, _)
ActiveDescUpTo(table, n) ==
  IF n = 0 THEN <<>>
  ELSE (IF table[n] = "active" THEN <<n>> ELSE <<>>) \o ActiveDescUpTo(table, n - 1)

\* select id where is_active order by created_at desc
ActiveDesc(table) == ActiveDescUpTo(table, Len(table))

\* allAnnouncements.slice(MAX_ANNOUNCEMENTS)
ToDeactivate(all) ==
  IF Len(all) > MAX_ANNOUNCEMENTS
  THEN {all[k] : k \in (MAX_ANNOUNCEMENTS + 1)..Len(all)}
  ELSE {}

\* the roles a signed-in client may have, and no session at all
ClientRoles == {"admin", "analyst", "viewer", "anon"}

\* the rows the UPDATE policy lets a client change
MayUpdate(role) == role \in {"admin", "analyst"}

\* update set is_active = false where id in ids, as the client's role: rows
\* the policy hides from the client are skipped without an error
UpdateIn(table, role, ids) ==
  [i \in DOMAIN table |->
     IF i \in ids /\ table[i] # "deleted" /\ MayUpdate(role) THEN "inactive"
     ELSE table[i]]

CleanupIdle(role, table) ==
  [fn |-> "cleanup", role |-> role, table |-> table, pc |-> "idle",
   seen |-> <<>>, readTable |-> <<>>]

InitCleanup ==
  /\ HandlerAtRest
  /\ \E role \in ClientRoles : probe = CleanupIdle(role, <<>>)

\* an admin or analyst publishes an announcement
InsertAnnouncement ==
  /\ Len(probe.table) < MaxAnnouncementRows
  /\ probe' = [probe EXCEPT !.table = Append(probe.table, "active")]
  /\ UNCHANGED <<variant, config, req, pc, region, gee, fire, cop, resp, calls>>

\* an admin deletes an announcement
DeleteAnnouncement ==
  /\ \E i \in DOMAIN probe.table :
       /\ probe.table[i] # "deleted"
       /\ probe' = [probe EXCEPT !.table[i] = "deleted"]
  /\ UNCHANGED <<variant, config, req, pc, region, gee, fire, cop, resp, calls>>

\* cleanupOldAnnouncements reads the active announcements: the read fails,
\* or there are at most MAX_ANNOUNCEMENTS and the run is over, or the update
\* is sent
CleanupRead ==
  /\ probe.pc = "idle"
  /\ \E answer \in {"ok", "error"} :
       probe' = IF answer = "error" THEN [probe EXCEPT !.pc = "failed"]
                ELSE [probe EXCEPT
                        !.seen = ActiveDesc(probe.table),
                        !.readTable = probe.table,
                        !.pc = IF Len(ActiveDesc(probe.table)) > MAX_ANNOUNCEMENTS
                               THEN "update" ELSE "done"]
  /\ UNCHANGED <<variant, config, req, pc, region, gee, fire, cop, resp, calls>>

\* the update is applied by the database, or fails
CleanupUpdate ==
  /\ probe.pc = "update"
  /\ \E answer \in {"ok", "error"} :
       probe' = IF answer = "error" THEN [probe EXCEPT !.pc = "failed"]
                ELSE [probe EXCEPT
                        !.table = UpdateIn(probe.table, probe.role,
                                           ToDeactivate(probe.seen)),
                        !.pc = "done"]
  /\ UNCHANGED <<variant, config, req, pc, region, gee, fire, cop, resp, calls>>

\* the run is over; its error, if any, has been logged
CleanupEnds ==
  /\ probe.pc \in {"done", "failed"}
  /\ probe' = CleanupIdle(probe.role, probe.table)
  /\ UNCHANGED <<variant, config, req, pc, region, gee, fire, cop, resp, calls>>

NextCleanup ==
  \/ InsertAnnouncement
  \/ DeleteAnnouncement
  \/ CleanupRead
  \/ CleanupUpdate
  \/ CleanupEnds

SpecCleanup == InitCleanup /\ [][NextCleanup]_vars

----------------------------------------------------------------------------
(* Row-level security of alert_subscriptions *)

\* the people using the public pages, each named by the email that is theirs
Emails == {"ana@example.ro", "bogdan@example.ro"}

\* FOR INSERT WITH CHECK (true)
InsertCheck(client, row) == TRUE

\* FOR SELECT USING (true)
SelectUsing(client, row) == TRUE

\* FOR UPDATE USING (true) WITH CHECK (true)
UpdateUsing(client, row) == TRUE
UpdateCheck(client, row) == TRUE

\* FOR DELETE USING (true)
DeleteUsing(client, row) == TRUE

NoStatement == [op |-> "none", client |-> "", rows |-> {}]

SubsInit == [fn |-> "subs", table |-> <<>>, last |-> NoStatement]

InitSubs ==
  /\ HandlerAtRest
  /\ probe = SubsInit

\* a client subscribes an email to a region's alerts
Subscribe ==
  /\ Len(probe.table) < MaxSubscriptions
  /\ \E client \in Emails, email \in Emails :
       LET row == [email |-> email, is_active |-> TRUE, deleted |-> FALSE]
       IN /\ InsertCheck(client, row)
          /\ probe' = [probe EXCEPT
                         !.table = Append(probe.table, row),
                         !.last = [op |-> "insert", client |-> client,
                                   rows |-> {Len(probe.table) + 1}]]
  /\ UNCHANGED <<variant, config, req, pc, region, gee, fire, cop, resp, calls>>

\* a client selects from the table: the rows the policy lets it see
ViewSubscriptions ==
  /\ \E client \in Emails :
       probe' = [probe EXCEPT
                   !.last = [op |-> "select", client |-> client,
                             rows |-> {i \in DOMAIN probe.table :
                                         /\ ~probe.table[i].deleted
                                         /\ SelectUsing(client, probe.table[i])}]]
  /\ UNCHANGED <<variant, config, req, pc, region, gee, fire, cop, resp, calls>>

\* a client updates a row by id: is_active is switched
UpdateSubscription ==
  /\ \E client \in Emails, i \in DOMAIN probe.table :
       LET row == probe.table[i]
           new == [row EXCEPT !.is_active = ~row.is_active]
       IN /\ ~row.deleted
          /\ SelectUsing(client, row)
          /\ UpdateUsing(client, row)
          /\ UpdateCheck(client, new)
          /\ probe' = [probe EXCEPT
                         !.table[i] = new,
                         !.last = [op |-> "update", client |-> client, rows |-> {i}]]
  /\ UNCHANGED <<variant, config, req, pc, region, gee, fire, cop, resp, calls>>

\* a client deletes a row by id
DeleteSubscription ==
  /\ \E client \in Emails, i \in DOMAIN probe.table :
       LET row == probe.table[i]
       IN /\ ~row.deleted
          /\ SelectUsing(client, row)
          /\ DeleteUsing(client, row)
          /\ probe' = [probe EXCEPT
                         !.table[i] = [row EXCEPT !.deleted = TRUE],
                         !.last = [op |-> "delete", client |-> client, rows |-> {i}]]
  /\ UNCHANGED <<variant, config, req, pc, region, gee, fire, cop, resp, calls>>

NextSubs ==
  \/ Subscribe
  \/ ViewSubscriptions
  \/ UpdateSubscription
  \/ DeleteSubscription

SpecSubs == InitSubs /\ [][NextSubs]_vars

----------------------------------------------------------------------------
(* calculateFireRisk, applied to a list and to the list one record longer *)

\* the fire radiative powers a parsed record may carry: parseFloat(...) || 0
\* of a cell reading -60, 0 (or no number), 30 or 60
ParsedFrps == {-60, 0, 30, 60}

GrowProbe(hotspots, before, negative) ==
  [fn |-> "grow", hotspots |-> hotspots, before |-> before, negative |-> negative,
   risk |-> calculateFireRisk(hotspots)]

InitGrow ==
  /\ HandlerAtRest
  /\ probe = GrowProbe(<<>>, "low", FALSE)

\* one more record is parsed and the risk is computed again
GrowHotspots ==
  /\ Len(probe.hotspots) < MaxGrown
  /\ \E confidence \in {TxtCell("h"), TxtCell("n")}, frp \in ParsedFrps :
       probe' = GrowProbe(Append(probe.hotspots, Hotspot(confidence, frp)),
                          probe.risk.fireRisk, probe.negative \/ frp < 0)
  /\ UNCHANGED <<variant, config, req, pc, region, gee, fire, cop, resp, calls>>

NextGrow == GrowHotspots

SpecGrow == InitGrow /\ [][NextGrow]_vars

----------------------------------------------------------------------------
(* Properties *)

\* the eight region ids
EightRegionIds ==
  {"fagaras", "iasi", "timisoara", "craiova", "constanta", "baia_mare",
   "bucuresti", "cluj"}

\* the handler has answered a request whose parameters it could read: a GET
\* of the final variant, or a request whose body is a JSON object
AnsweredRead ==
  /\ pc = "done"
  /\ req.method # "OPTIONS"
  /\ (variant = "final" /\ req.method = "GET") \/ req.body = "object"

\* the deployed variant has the action the request names
HasAction == ~(variant = "copernicus" /\ req.action = "gee")

C2_UnknownRegionIs400 ==
  (/\ AnsweredRead
   /\ req.action \in {"analyze", "gee", "fires"}
                     \cup (IF variant = "final" THEN {} ELSE {"search"})
   /\ HasAction
   /\ req.regionId \notin {Undefined, ""}
   /\ req.regionId \notin EightRegionIds)
  => (resp.status = 400 /\ resp.error = "Unknown region")

\* the fire fields an analyze response must carry, given what FIRMS answered
FireFieldsFollowFirms ==
  LET hotspots == HotspotsOfAnswer(fire.answer, REGIONS[req.regionId].bbox,
                                   config.firmsKey)
      fireAnalysis == calculateFireRisk(hotspots)
  IN /\ resp.hotspots = Slice(hotspots, 20)
     /\ resp.fireRisk = fireAnalysis.fireRisk
     /\ resp.fireData = <<FireDataOf(fireAnalysis)>>

\* C3: when GEE token acquisition has failed, analyze of a known region
\* still answers 200 with the FIRMS fire data (fireHotspots, fireRisk,
\* fireData); and the fire fields of every analyze response, whether the
\* token was obtained or not, are those of the FIRMS answer alone.
C3_TokenFailureKeepsFireData ==
  (/\ AnsweredRead
   /\ req.action = "analyze"
   /\ req.regionId \in EightRegionIds)
  => /\ gee.token \in {"null", "undefined"}
          => (resp.status = 200 /\ resp.kind = "analyze")
     /\ resp.status = 200 => FireFieldsFollowFirms

C3_Witness ==
  /\ pc = "done"
  /\ req.action = "analyze"
  /\ req.regionId = "cluj"
  /\ gee.tokenAnswer = "non2xx"
  /\ gee.token = "null"
  /\ resp.status = 200
  /\ resp.fireRisk = "high"
  /\ Len(resp.hotspots) = 1

\* the request carries a daysBack of a few days, or none
FewDaysBack ==
  \/ req.daysBack.ty = "undef"
  \/ (req.daysBack.ty \in {"num", "numstr"} /\ req.daysBack.n \in 1..30)

\* every secret the deployed variant reads is set and usable
FullyConfigured ==
  /\ HasGEE(variant) => config.geeKey = "ok"
  /\ HasCopernicus(variant) => config.copCreds

\* C4: analyze, gee or fires of a known region is answered normally (200,
\* with empty or null data for a source that failed) whatever the upstream
\* endpoints answer; an upstream failure never becomes a 5xx.
C4_UpstreamFailureNever5xx ==
  (/\ AnsweredRead
   /\ req.action \in {"analyze", "gee", "fires"}
   /\ HasAction
   /\ req.regionId \in EightRegionIds
   /\ FewDaysBack
   /\ FullyConfigured)
  => resp.status = 200

\* C5: getGEEAccessToken returns a bearer token or null, and null when the
\* key is missing, no JSON or unusable, when the token request fails, when
\* the answer is not 2xx and when a 2xx answer carries no access_token.
C5_TokenIsBearerOrNull ==
  gee.token # "none"
  => /\ gee.token \in {"bearer", "null"}
     /\ (config.geeKey # "ok"
         \/ gee.tokenAnswer \in {"neterr", "non2xx", "no_token"})
        => gee.token = "null"

\* C6: calculateFireRisk follows the threshold table: 'low' exactly for the
\* empty list; else 'critical' when count >= 10 or high-confidence count >= 5
\* or summed FRP > 100; else 'high' when count >= 5 or high-confidence
\* count >= 2 or summed FRP > 50; else 'medium'; and the fireRisk of the
\* fires and analyze responses is that label.
C6_FireRiskTable ==
  probe.fn = "risk"
  => LET n == Len(probe.hotspots)
         label == IF n = 0 THEN "low"
                  ELSE IF n >= 10 \/ probe.high >= 5 \/ probe.frp > 100 THEN "critical"
                  ELSE IF n >= 5 \/ probe.high >= 2 \/ probe.frp > 50 THEN "high"
                  ELSE "medium"
     IN /\ probe.risk.fireRisk = label
        /\ (probe.risk.fireRisk = "low") = (n = 0)
        /\ probe.fires.fireRisk = label
        /\ probe.analyze.fireRisk = label

C6_Witness ==
  /\ probe.fn = "risk"
  /\ Len(probe.hotspots) = 4
  /\ probe.high = 0
  /\ probe.frp = 100
  /\ probe.risk.fireRisk = "high"
  /\ probe.fires.fireRisk = "high"

\* the number a cell of a detection stands for: 0 when it is no number
NumberOfCell(c) == IF c.t \in {"num", "pre"} THEN c.n ELSE 0

\* the cell a detection holds under a column, when the header has the column
CellUnder(header, d, name) ==
  IF \E i \in 1..Len(header) : header[i] = name THEN d[name] ELSE TxtCell("")

\* C7: every hotspot field is read from the column whose header names it,
\* whatever the order of the columns, and every numeric field (latitude,
\* longitude, brightness, frp) whose text is missing or no number is 0, never
\* NaN.
C7_ColumnsByNameAndNoNaN ==
  probe.fn = "firms"
  => /\ \A j \in 1..Len(probe.hotspots) :
          /\ ~probe.hotspots[j].latitude.nan
          /\ ~probe.hotspots[j].longitude.nan
          /\ ~probe.hotspots[j].brightness.nan
          /\ ~probe.hotspots[j].frp.nan
     /\ probe.hasKey
        => /\ Len(probe.hotspots) = Len(probe.rows)
           /\ \A j \in 1..Len(probe.rows) :
                LET h == probe.hotspots[j]
                    d == probe.rows[j]
                    bright == IF \E i \in 1..Len(probe.header) :
                                    probe.header[i] = "bright_ti4"
                              THEN "bright_ti4" ELSE "brightness"
                IN /\ h.latitude = Num(NumberOfCell(CellUnder(probe.header, d, "latitude")))
                   /\ h.longitude = Num(NumberOfCell(CellUnder(probe.header, d, "longitude")))
                   /\ h.brightness = Num(NumberOfCell(CellUnder(probe.header, d, bright)))
                   /\ h.frp = Num(NumberOfCell(CellUnder(probe.header, d, "frp")))

\* C8: without a FIRMS key every hotspot returned lies in the region's
\* bounding box expanded by 0.5 degrees on each side.
C8_OpenQueryInsideExpandedBbox ==
  (probe.fn = "firms" /\ ~probe.hasKey)
  => \A j \in 1..Len(probe.hotspots) :
       LET h == probe.hotspots[j]
           bbox == REGIONS[probe.regionId].bbox
       IN /\ ~h.longitude.nan
          /\ ~h.latitude.nan
          /\ bbox[1] - 5 <= h.longitude.v
          /\ h.longitude.v <= bbox[3] + 5
          /\ bbox[2] - 5 <= h.latitude.v
          /\ h.latitude.v <= bbox[4] + 5

\* FIRMS did not answer, answered a non-2xx status, or answered a body of
\* fewer than two lines
FirmsGaveNothing ==
  \/ fire.answer.kind \in {"neterr", "non2xx"}
  \/ /\ fire.answer.kind = "ok"
     /\ Cardinality({i \in 1..Len(fire.answer.body) : fire.answer.body[i] # <<>>}) < 2

\* C9: getFireHotspots, called for a region, never throws; when FIRMS does
\* not answer, answers a non-2xx status or answers fewer than two lines it
\* returns the empty list, and the fires action then reports fireRisk 'low'
\* and no hotspot.
C9_FirmsFailureIsEmptyList ==
  /\ region.kind = "region" => fire.pc # "rejected"
  /\ fire.answer.kind # "none" => fire.pc = "resolved"
  /\ FirmsGaveNothing => fire.hotspots = <<>>
  /\ (AnsweredRead /\ req.action = "fires" /\ FirmsGaveNothing)
     => /\ resp.status = 200
        /\ resp.kind = "fires"
        /\ resp.fireRisk = "low"
        /\ resp.hotspots = <<>>
        /\ resp.fireData[1].activeHotspots = 0

C9_Witness ==
  /\ pc = "done"
  /\ req.action = "fires"
  /\ fire.answer.kind = "ok"
  /\ Len(fire.answer.body) = 2
  /\ FirmsGaveNothing
  /\ resp.status = 200
  /\ resp.fireRisk = "low"

\* C10 as first stated: every action other than list-regions, analyze, gee
\* and fires, a missing one included, is answered 400 {error: 'Invalid
\* action'}.
C10_OnlyFourActions ==
  (AnsweredRead /\ req.action \notin {"list-regions", "analyze", "gee", "fires"})
  => (resp.status = 400 /\ resp.error = "Invalid action")

\* the actions each variant's handler has a branch for
DispatchedBy ==
  IF variant = "final" THEN {"list-regions", "analyze", "gee", "fires"}
  ELSE IF variant = "gee_copernicus"
  THEN {"list-regions", "search", "analyze", "gee", "fires"}
  ELSE {"list-regions", "search", "analyze", "fires"}

\* C10: every action other than the ones the deployed variant supports
\* (list-regions, analyze, gee, fires in the final variant; these and search
\* in the GEE + Copernicus variant; list-regions, search, analyze, fires in
\* the Copernicus-only variant), a missing one included, is answered 400
\* {error: 'Invalid action'} whatever regionId and daysBack are.
C10_UnsupportedActionIs400 ==
  (AnsweredRead /\ req.action \notin DispatchedBy)
  => (resp.status = 400 /\ resp.kind = "error" /\ resp.error = "Invalid action")

C10_Witness ==
  /\ pc = "done"
  /\ variant = "final"
  /\ req.method = "GET"
  /\ req.action = "search"
  /\ req.regionId = "cluj"
  /\ resp.status = 400
  /\ resp.error = "Invalid action"

\* the handler has answered a request other than a preflight
Answered == pc = "done" /\ req.method # "OPTIONS"

\* what the outer catch must have answered, when something was thrown
C11_ExceptionIs500 ==
  Answered
  => LET p == ParseRequest(variant, req)
         thrown == {a \in Awaited(variant, p.action) : a[1] = "rejected"}
     IN /\ resp.kind \notin {"none", "preflight"}
        /\ resp.status \in {200, 400, 500, 503}
        /\ ~p.ok => (resp.status = 500 /\ resp.kind = "error" /\ resp.error = p.error)
        /\ (p.ok /\ thrown # {})
           => \E a \in thrown :
                resp.status = 500 /\ resp.kind = "error" /\ resp.error = a[2]
        /\ resp.status = 500 => (resp.kind = "error" /\ resp.error # "")

\* a response is set once per request, at the step that ends the handler
C11_OneResponse ==
  resp' # resp
  => \/ (resp = NoResponse /\ pc # "done" /\ pc' = "done")
     \/ (pc = "done" /\ pc' = "idle" /\ resp' = NoResponse)

\* C11: the handler never throws: an exception raised while reading or
\* dispatching a request is answered 500 with a JSON body that carries the
\* exception's message, and every request received is answered, once.
C11_HandlerNeverThrows ==
  /\ []C11_ExceptionIs500
  /\ [][C11_OneResponse]_vars
  /\ (pc = "received") ~> (pc = "done")

C11_Witness ==
  /\ pc = "done"
  /\ req.method = "POST"
  /\ req.body = "invalid"
  /\ resp = ErrorResponse(500, "Unexpected token")

\* C12: every output of the NDVI estimator satisfies
\* -1 <= ndviMin <= ndviMean <= ndviMax <= 1, for every month, region and
\* draw; and for the same region every June ndviMean is strictly greater
\* than every January ndviMean.
C12_NdviOrderedAndSeasonal ==
  probe.fn = "estimate"
  => /\ -1000 <= probe.est.ndviMin
     /\ probe.est.ndviMin <= probe.est.ndviMean
     /\ probe.est.ndviMean <= probe.est.ndviMax
     /\ probe.est.ndviMax <= 1000
     /\ probe.june.ndviMean > probe.january.ndviMean

C12_Witness ==
  /\ probe.fn = "estimate"
  /\ probe.regionId = "cluj"
  /\ probe.month = 5
  /\ probe.draws[1] = 0
  /\ probe.other = 999
  /\ probe.est.ndviMean = 500
  /\ probe.january.ndviMean = 250

\* the final variant's getGEEAnalysis has returned
FinalGeeResolved == variant = "final" /\ gee.pc = "resolved"

\* the numbers of the estimate are there and are those of the month, the
\* region and the draws, whatever the flag is
EstimateRegardless ==
  /\ gee.result.kind = "estimate"
  /\ gee.result.est # NoEstimate
  /\ gee.result.est = EstimateGEE(gee.draw[1], region.bbox, gee.draw[2],
                                  gee.draw[3], 500)
  /\ gee.result.est.vegetationStress \in {"low", "moderate", "high"}

\* C13 as first stated: geeConnected is true exactly when a bearer token
\* was obtained, and the numeric estimate is non-null and produced in the
\* same way whatever the flag is.
C13_ConnectedIffToken ==
  FinalGeeResolved
  => /\ gee.result.geeConnected = (gee.token = "bearer")
     /\ EstimateRegardless

\* C13: geeConnected is true exactly when a bearer token was obtained and
\* the Earth Engine asset listing made with it answered 2xx or 404, and
\* false otherwise; the numeric estimate is non-null and produced in the
\* same way whatever the flag is.
C13_ConnectedIffTokenAndListing ==
  FinalGeeResolved
  => /\ gee.result.geeConnected
        = (gee.token = "bearer" /\ gee.eeAnswer \in {"ok", "404"})
     /\ EstimateRegardless

C13_Witness ==
  /\ FinalGeeResolved
  /\ gee.token = "bearer"
  /\ gee.eeAnswer = "404"
  /\ gee.result.geeConnected
  /\ gee.result.est.ndviMean = 500

\* analyze of a variant that asks both GEE and FIRMS, for one of the regions
AnalyzeBoth ==
  /\ HasGEE(variant)
  /\ ParseRequest(variant, req).ok
  /\ ParseRequest(variant, req).action = "analyze"
  /\ req.regionId \in EightRegionIds

\* the two calls are started in one step, before either is awaited
C14_StartedTogether ==
  AnalyzeBoth
  => ((gee.pc = "off" /\ gee'.pc # "off") <=> (fire.pc = "off" /\ fire'.pc # "off"))

\* no step of one call touches the other: a step changes both only when it
\* starts both or ends the invocation
C14_NoSharedState ==
  (gee' # gee /\ fire' # fire)
  => \/ (gee.pc = "off" /\ fire.pc = "off")
     \/ (gee' = GeeOff /\ fire' = FireOff)

\* the response is a function of the upstream answers and the draws, not of
\* the order in which the two calls completed
C14_OrderIndependent ==
  (Answered /\ AnalyzeBoth /\ resp.status = 200)
  => /\ resp.gee = <<gee.result>>
     /\ FireFieldsFollowFirms
     /\ variant = "final"
        => gee.result
           = GeeEstimated(gee.tokenAnswer = "token" /\ gee.eeAnswer \in {"ok", "404"},
                          EstimateGEE(gee.draw[1], region.bbox, gee.draw[2],
                                      gee.draw[3], 500))

\* a call that has produced its result is answered with it, whatever became
\* of the other call
C14_NothingDiscarded ==
  (Answered /\ AnalyzeBoth /\ (gee.pc = "resolved" \/ fire.pc = "resolved"))
  => resp.status = 200

\* C14: in analyze the GEE call and the FIRMS call are both started before
\* either result is awaited, they share no mutable state, the response is
\* the same for every order in which they complete, and the failure of one
\* never discards the result of the other.
C14_ConcurrentAndIndependent ==
  /\ [][C14_StartedTogether /\ C14_NoSharedState]_vars
  /\ [](C14_OrderIndependent /\ C14_NothingDiscarded)

\* the structure C14 describes, without its last part
C14_Structure ==
  /\ [][C14_StartedTogether /\ C14_NoSharedState]_vars
  /\ []C14_OrderIndependent

\* C15: getCachedSatelliteData races the fetch against a 60-second timer:
\* a call that is still waiting has waited at most 60 seconds; a call that
\* timed out did so exactly 60 seconds after it started, the fetch not
\* having settled; and when the fetch settles first the caller receives its
\* data or its error.
C15_FetchRacesTimer ==
  probe.fn = "cache"
  => /\ probe.pc = "waiting" => probe.clock - probe.startedAt <= 60000
     /\ (probe.pc = "threw" /\ probe.result.error = "Request timed out")
        => /\ probe.clock - probe.startedAt = 60000
           /\ probe.outcome = NoOutcome
     /\ (probe.pc = "threw" /\ probe.result.error # "Request timed out")
        => /\ probe.outcome.kind = "rejected"
           /\ probe.clock - probe.startedAt <= 60000
     /\ (probe.pc = "returned" /\ ~probe.result.fromCache)
        => /\ probe.outcome.kind = "resolved"
           /\ probe.result.data = probe.outcome.data
           /\ probe.clock - probe.startedAt <= 60000

C15_Witness ==
  /\ probe.fn = "cache"
  /\ probe.pc = "threw"
  /\ probe.result.error = "Request timed out"
  /\ probe.startedAt = 30000
  /\ probe.clock = 90000

\* the boxes as they are written in the source, in tenths of a degree
FixedBbox ==
  [fagaras   |-> <<245, 455, 255, 460>>,
   iasi      |-> <<275, 470, 278, 473>>,
   timisoara |-> <<211, 456, 214, 459>>,
   craiova   |-> <<237, 442, 240, 445>>,
   constanta |-> <<285, 441, 288, 444>>,
   baia_mare |-> <<234, 475, 237, 478>>,
   bucuresti |-> <<259, 443, 262, 446>>,
   cluj      |-> <<235, 467, 238, 470>>]

\* C16: for each of the 8 region ids the bounding box reported by
\* list-regions and echoed by analyze, gee and fires is the hardcoded box of
\* that region; list-regions always returns exactly the 8 regions; and this
\* is so after every sequence of requests.
C16_FixedRegionTable ==
  /\ \A id \in EightRegionIds :
       LookupRegion(id) = [kind |-> "region", bbox |-> FixedBbox[id]]
  /\ (Answered /\ ParseRequest(variant, req).ok
      /\ ParseRequest(variant, req).action = "list-regions")
     => /\ resp.status = 200
        /\ resp.kind = "regions"
  /\ resp.kind = "regions"
     => /\ Len(resp.regions) = 8
        /\ {resp.regions[i].id : i \in 1..8} = EightRegionIds
        /\ \A i \in 1..8 : resp.regions[i].bbox = FixedBbox[resp.regions[i].id]
  /\ (Answered /\ resp.status = 200 /\ resp.kind \in {"analyze", "gee", "fires"})
     => /\ resp.regionId \in EightRegionIds
        /\ resp.regionId = req.regionId
        /\ resp.bbox = FixedBbox[resp.regionId]

C16_Witness ==
  /\ Answered
  /\ resp.status = 200
  /\ resp.kind = "fires"
  /\ resp.regionId = "cluj"
  /\ resp.bbox = <<235, 467, 238, 470>>
  /\ calls = {"firms"}

\* the POST request whose JSON body carries the values a GET carries in its
\* query, an integer daysBack as a JSON number
PostTwin(r) ==
  [method |-> "POST", body |-> "object", action |-> r.action,
   regionId |-> r.regionId,
   daysBack |-> IF r.daysBack.ty = "numstr" THEN DaysNum(r.daysBack.n)
                ELSE r.daysBack]

\* everything the handler's dispatch reads of the parsed parameters: the
\* branch, the region tests, the id echoed, and the days handed to the calls
DispatchInputs(p) ==
  [ok |-> p.ok,
   action |-> p.action,
   noRegionId |-> IsFalsyStr(p.regionId),
   regionId |-> IF IsFalsyStr(p.regionId) THEN Undefined ELSE p.regionId,
   region |-> LookupRegion(p.regionId),
   geeDays |-> DaysOr(p.daysBack, 30),
   firmsDays |-> MathMin(DaysOr(p.daysBack, 3), 10)]

\* a GET that carries an integer daysBack or none
IntegerGet == req.method = "GET" /\ req.daysBack.ty \in {"undef", "numstr"}

\* C17: a GET carrying action, regionId and an integer daysBack as query
\* parameters is read to the same parameters, and so dispatched to the same
\* branch with the same status and response shape, as a POST whose JSON body
\* carries the same values.
C17_GetSameAsPost ==
  IntegerGet
  => /\ DispatchInputs(ParseRequest(variant, req))
        = DispatchInputs(ParseRequest(variant, PostTwin(req)))
     /\ (pc = "done" /\ req.action = "list-regions") => resp.status = 200

\* the same, of the final variant alone
C17_FinalGetSameAsPost == variant = "final" => C17_GetSameAsPost


----------------------------------------------------------------------------
(* C18 *)

\* an analyze response that carries estimated numbers
AnalyzeEstimated ==
  /\ pc = "done"
  /\ resp.status = 200
  /\ resp.kind = "analyze"
  /\ resp.gee # <<>>
  /\ resp.gee[1].est # NoEstimate

\* the vegetation-stress label the cutoffs give a returned ndviMean
StressCut(ndviMean) ==
  IF ndviMean > 500 THEN "low" ELSE IF ndviMean > 300 THEN "moderate" ELSE "high"

\* C18: the flood-risk and vegetation labels of an analyze response are
\* fixed cutoffs of the estimated numbers the response carries and of nothing
\* else: floodRisk 'low' below 3 percent, 'high' above 7, else 'medium';
\* vegetationHealth 'good' above an ndviMean of 0.5, 'poor' below 0.3, else
\* 'moderate'; vegetationStress 'low' above 0.5, 'moderate' above 0.3, else
\* 'high'.
C18_LabelsAreCutoffs ==
  AnalyzeEstimated
  => /\ resp.floodRisk = FloodRiskOf(resp.gee[1].est.floodPercentage)
     /\ resp.vegetationHealth = VegetationHealthOf(resp.gee[1].est.ndviMean)
     /\ resp.gee[1].est.vegetationStress = StressCut(resp.gee[1].est.ndviMean)

\* the same, of the final variant alone
C18_FinalLabelsAreCutoffs == variant = "final" => C18_LabelsAreCutoffs

\* the stress label of an estimate is the cutoff of the ndviMean it returns
C18_StressIsCutoff ==
  probe.fn = "estimate" => probe.est.vegetationStress = StressCut(probe.est.ndviMean)

----------------------------------------------------------------------------
(* C19 *)

\* the number of hotspots of a pattern that are of high confidence among the
\* first n
HighAmong(pattern, n) == Cardinality({i \in 1..n : IsHighAt(pattern, i)})

\* C19: the fireHotspots of an analyze response are the first 20 hotspots
\* parsed, at most 20, while its fire indicators are those of the whole
\* list, so that activeHotspots is at least the length of fireHotspots; the
\* hotspots of a fires response are the whole list and its activeHotspots is
\* their number.
C19_AnalyzeCutsFiresDoesNot ==
  probe.fn = "list"
  => LET n == Len(probe.hotspots)
         fireData == probe.analyze.fireData[1]
     IN /\ Len(probe.analyze.hotspots) <= 20
        /\ Len(probe.analyze.hotspots) = (IF n < 20 THEN n ELSE 20)
        /\ \A i \in 1..Len(probe.analyze.hotspots) :
             probe.analyze.hotspots[i] = probe.hotspots[i]
        /\ fireData.activeHotspots = n
        /\ fireData.highConfidenceCount = HighAmong(probe.pattern, n)
        /\ fireData.totalFRP = (n * (n + 1)) \div 2
        /\ probe.analyze.fireRisk = calculateFireRisk(probe.hotspots).fireRisk
        /\ fireData.activeHotspots >= Len(probe.analyze.hotspots)
        /\ probe.fires.hotspots = probe.hotspots
        /\ probe.fires.fireData[1].activeHotspots = Len(probe.fires.hotspots)

\* a list of more than 20 hotspots whose high-confidence ones all come after
\* the twentieth
C19_Witness ==
  /\ probe.fn = "list"
  /\ probe.pattern = "tail"
  /\ Len(probe.hotspots) = 22
  /\ Len(probe.analyze.hotspots) = 20
  /\ probe.analyze.fireData[1].highConfidenceCount = 2
  /\ Len(probe.fires.hotspots) = 22

----------------------------------------------------------------------------
(* C20 *)

\* a request for hotspots is on its way to FIRMS
FirmsRequested == fire.pc = "wait" /\ req.action \in {"analyze", "fires"}

\* C20: the number of days analyze and fires request from FIRMS is between
\* 1 and 10: the daysBack of the request capped at 10, and 3 when the request
\* has no daysBack or a daysBack of 0, whatever daysBack the request carries.
C20_FirmsDaysWithin1And10 ==
  FirmsRequested
  => LET daysBack == ParseRequest(variant, req).daysBack
     IN /\ IsNumeric(fire.days)
        /\ fire.days.n >= 1
        /\ fire.days.n <= 10
        /\ (daysBack.ty = "undef" \/ (IsNumeric(daysBack) /\ daysBack.n = 0))
           => fire.days.n = 3
        /\ (IsNumeric(daysBack) /\ daysBack.n > 0)
           => fire.days.n = (IF daysBack.n < 10 THEN daysBack.n ELSE 10)

\* the same, of the requests whose daysBack is absent or a number of at
\* least 0
C20_FirmsDaysOfNaturalDaysBack ==
  LET daysBack == ParseRequest(variant, req).daysBack
  IN (daysBack.ty = "undef" \/ (IsNumeric(daysBack) /\ daysBack.n >= 0))
     => C20_FirmsDaysWithin1And10

----------------------------------------------------------------------------
(* C21 *)

\* what a call answered from the cache requires
C21_FromCacheOnlyFresh ==
  (probe.fn = "cache" /\ probe.pc = "returned" /\ probe.result.fromCache)
  => /\ ~probe.force
     /\ probe.store.kind = "entry"
     /\ probe.clock - probe.store.timestamp <= 30 * 60 * 1000
     /\ probe.result.data = probe.store.data
     /\ probe.result.cacheTime = probe.store.timestamp

\* what a call does that finds an expired or unparsable entry, or that is
\* forced
C21_StaleRemovedAndFetched ==
  (probe.fn = "cache" /\ probe.pc = "idle" /\ probe'.pc # "idle"
   /\ probe'.clock = probe.clock)
  => /\ (~probe'.force
         /\ \/ probe.store.kind = "corrupt"
            \/ /\ probe.store.kind = "entry"
               /\ probe.clock - probe.store.timestamp > 30 * 60 * 1000)
        => (probe'.store = NoEntry /\ probe'.pc = "waiting")
     /\ probe'.force => (probe'.pc = "waiting" /\ probe'.store = probe.store)

\* C21: getCachedSatelliteData answers from the cache (fromCache = true)
\* only when it is not forced and the stored entry exists, parses and is at
\* most 30 minutes old; an entry older than that, or one that does not
\* parse, is removed on read and a fetch is started; a forced call never
\* returns the stored entry.
C21_CacheReadHonoursTtl ==
  /\ []C21_FromCacheOnlyFresh
  /\ [][C21_StaleRemovedAndFetched]_vars

\* the same, of a storage that never holds an object without a timestamp
C21_TimedStore ==
  (probe.fn = "cache" /\ probe.store.kind # "untimed") => C21_FromCacheOnlyFresh

----------------------------------------------------------------------------
(* C22 *)

\* C22: the stored entry is written only by a fetch that resolves, before
\* the 60-second timer fires, with at least one region analysis, and it is
\* then the fetched data stamped with the time of the write; a fetch that
\* rejects, a call that times out and a fetch that resolves with an empty
\* list leave the stored entry as it was, and a fetch that settles after its
\* timer has fired writes nothing.
C22_OnlyTimelyNonEmptyFetchWrites ==
  [][probe.fn = "cache"
     => /\ (probe'.store # probe.store /\ probe'.store # NoEntry)
           => /\ probe.pc = "waiting"
              /\ probe'.pc = "returned"
              /\ probe'.outcome.kind = "resolved"
              /\ probe'.outcome.data > 0
              /\ probe.clock - probe.startedAt <= 60 * 1000
              /\ probe'.store = Entry(probe'.outcome.data, probe.clock)
        /\ (probe.pc = "waiting" /\ probe'.pc = "returned" /\ probe'.outcome.data > 0)
           => probe'.store = Entry(probe'.outcome.data, probe.clock)
        /\ (probe.pc = "waiting" /\ probe'.pc = "threw")
           => probe'.store = probe.store
        /\ (probe.pc = "waiting" /\ probe'.pc = "returned" /\ probe'.outcome.data = 0)
           => probe'.store = probe.store
        /\ (probe.stale = "running" /\ probe'.stale = "settled")
           => probe'.store = probe.store]_vars

\* a fetch has stored its data 30 seconds after its call, after the fetch
\* of an earlier call that timed out has settled
C22_Witness ==
  /\ probe.fn = "cache"
  /\ probe.pc = "returned"
  /\ ~probe.result.fromCache
  /\ probe.stale = "settled"
  /\ probe.clock - probe.startedAt = 30000
  /\ probe.store = Entry(2, probe.clock)

----------------------------------------------------------------------------
(* C23 *)

\* the positions of the region list whose analyze call succeeded
Succeeded == {i \in DOMAIN probe.settled : probe.settled[i] = "ok"}

\* C23: analyzeAllRegions resolves with exactly the analyses of the regions
\* whose analyze call succeeded, in the order of the region list, the regions
\* whose call failed left out (the result may be empty); it rejects only
\* when listing the regions fails, never because a region's call failed.
C23_SucceededInListOrder ==
  probe.fn = "all"
  => /\ probe.pc = "resolved"
        => /\ Len(probe.result) = Cardinality(Succeeded)
           /\ \A i \in Succeeded :
                \E k \in DOMAIN probe.result :
                  /\ probe.result[k] = [kind |-> "analysis", regionId |-> probe.regions[i]]
                  /\ k = Cardinality({j \in Succeeded : j <= i})
           /\ \A k \in DOMAIN probe.result : probe.result[k].kind = "analysis"
     /\ probe.pc = "rejected"
        => (probe.listed = "rejected" /\ probe.settled = <<>>)
     /\ (probe.pc = "analyzing" /\ \A i \in DOMAIN probe.settled :
                                     probe.settled[i] # "pending")
        => AwaitAll(probe.settled) = "resolved"

\* four regions listed, the second and the fourth failed
C23_Witness ==
  /\ probe.fn = "all"
  /\ probe.pc = "resolved"
  /\ probe.settled = <<"ok", "failed", "ok", "failed">>
  /\ Len(probe.result) = 2
  /\ probe.result[2].regionId = "timisoara"

\* every region failed: the result is empty and nothing is thrown
C23_WitnessEmpty ==
  /\ probe.fn = "all"
  /\ probe.pc = "resolved"
  /\ Len(probe.regions) = 3
  /\ probe.result = <<>>

----------------------------------------------------------------------------
(* C24 *)

\* a cleanup run completes without error in this step
CleanupCompletes ==
  /\ probe.fn = "cleanup"
  /\ probe.pc \in {"idle", "update"}
  /\ probe'.pc = "done"

\* what the claim says of the table a completed run leaves
KeepsLatest3 ==
  LET seen == probe'.seen
      left == ActiveDesc(probe'.table)
  IN /\ Len(left) <= 3
     /\ left = SubSeq(seen, 1, IF Len(seen) < 3 THEN Len(seen) ELSE 3)
     /\ \A k \in 4..Len(seen) : probe'.table[seen[k]] # "active"
     /\ Len(seen) <= 3 => probe'.table = probe.table

\* C24: when a cleanup run completes without error, at most 3 announcements
\* are active, they are the 3 most recently created of those that were
\* active when the run read the table, the older ones have been
\* deactivated, and nothing is deactivated when 3 or fewer were active.
C24_CleanupKeepsLatest3 == [][CleanupCompletes => KeepsLatest3]_vars

\* the same, of a run of an admin or analyst during which no other client
\* changes the table
C24_QuietPrivilegedRun ==
  [][(CleanupCompletes /\ MayUpdate(probe.role)
      /\ (probe.pc = "update" => probe.table = probe.readTable))
     => KeepsLatest3]_vars

----------------------------------------------------------------------------
(* C25 *)

\* C25: a client views, updates or deletes a row of alert_subscriptions only
\* when the row's email is the client's own; no client reads, changes or
\* deletes a subscription of another email.
C25_OwnEmailOnly ==
  (probe.fn = "subs" /\ probe.last.op \in {"select", "update", "delete"})
  => \A i \in probe.last.rows : probe.table[i].email = probe.last.client

----------------------------------------------------------------------------
(* C26 *)

\* a request that is answered 400 has caused no external request: no call
\* to the Google token endpoint, Earth Engine, FIRMS or Copernicus was issued
\* for it, whatever its action
C26_NoCallBefore400 ==
  (pc = "done" /\ resp.status = 400) => calls = {}

\* an analyze request for a region that does not exist, answered 400
C26_Witness ==
  /\ pc = "done"
  /\ resp.status = 400
  /\ req.action = "analyze"
  /\ req.regionId = "atlantis"
  /\ calls = {}

\* the three checks of a request: its action is one the handler has, its
\* regionId is present, and the region exists
RequestChecked ==
  LET p == ParseRequest(variant, req)
  IN /\ p.ok
     /\ p.action \in SupportedActions(variant)
     /\ ~IsFalsyStr(p.regionId)
     /\ LookupRegion(p.regionId).kind # "undefined"

\* C26: no external request is issued for a request that is answered 400:
\* for every action, the action, the presence of regionId and the existence
\* of the region are checked before the first call to the token endpoint,
\* Earth Engine, FIRMS or Copernicus.
C26_ChecksBeforeFirstCall ==
  /\ C26_NoCallBefore400
  /\ calls # {} => RequestChecked

----------------------------------------------------------------------------
(* C27 *)

\* the order of the labels
RiskRank(label) ==
  IF label = "low" THEN 0
  ELSE IF label = "medium" THEN 1
  ELSE IF label = "high" THEN 2
  ELSE 3

\* C27: fire risk is monotone in the data: for every list of parsed
\* hotspots and every further parsed record, the label calculateFireRisk
\* gives the longer list is not lower, in the order low < medium < high <
\* critical, than the label of the list before.
C27_RiskMonotone ==
  probe.fn = "grow" => RiskRank(probe.before) <= RiskRank(probe.risk.fireRisk)

\* the same, of lists none of whose records has a negative fire radiative
\* power
C27_RiskMonotoneNonNegative ==
  (probe.fn = "grow" /\ ~probe.negative) => C27_RiskMonotone
====
